---- MODULE Spec2Model ----
(***************************************************************************)
(* A model of burn-analyzer: the line-oriented parser (parser.rs), the     *)
(* declaration-driven type table (typechecker.rs), the document store      *)
(* (analyzer.rs) and the hover/completion resolvers (hover.rs,             *)
(* typechecker.rs).                                                        *)
(*                                                                         *)
(* A Rust String is modelled as a sequence of one-character strings, so    *)
(* that trimming, splitting and slicing are computed as the code computes  *)
(* them.  Offsets and columns are 0-based as in the source; the helpers    *)
(* At and Slice translate them to TLA+'s 1-based sequences.  Option<T> is  *)
(* a record tagged "None" or "Some"; a Result is tagged "Ok" or "Err"; a   *)
(* panic (an out-of-range slice) is a result tagged "Panic".               *)
(***************************************************************************)
EXTENDS Integers, Sequences, FiniteSets, TLC

VARIABLES
    documents,     \* BurnAnalyzer.documents: uri -> Document
    variables,     \* BurnTypeChecker.variables: uri -> (name -> type string)
    current_file,  \* BurnTypeChecker.current_file: Option<uri>
    lock_holder,   \* the state of each Mutex: "free", a holder, "poisoned"
    open_log,      \* the parse errors open_document logged, per uri
    last,          \* the call made last, with its outcome and return value
    recent,        \* the uris of the latest consecutive type-checking analyses
    pc             \* per thread, the operation it runs and where it stands in it

vars == <<documents, variables, current_file, lock_holder, open_log, last, recent, pc>>

----------------------------------------------------------------------------
(* Option, Result                                                          *)

None == [tag |-> "None"]

Some(v) == [tag |-> "Some", value |-> v]

Panic == [tag |-> "Panic"]

----------------------------------------------------------------------------
(* Characters and string primitives of the Rust standard library           *)

Digits == {"0", "1", "2", "3", "4", "5", "6", "7", "8", "9"}

Letters == {"a", "b", "c", "d", "e", "f", "g", "h", "i", "j", "k", "l", "m",
            "n", "o", "p", "q", "r", "s", "t", "u", "v", "w", "x", "y", "z",
            "A", "B", "C", "D", "E", "F", "G", "H", "I", "J", "K", "L", "M",
            "N", "O", "P", "Q", "R", "S", "T", "U", "V", "W", "X", "Y", "Z"}

is_whitespace(c) == c \in {" ", "\t", "\n", "\r"}

is_alphabetic(c) == c \in Letters

is_alphanumeric(c) == c \in Letters \cup Digits

\* the predicate !(c.is_alphanumeric() || c == '_') of the word scanners
IsWordChar(c) == is_alphanumeric(c) \/ c = "_"

At(s, i) == s[i + 1]

\* &s[a..b]
Slice(s, a, b) == SubSeq(s, a + 1, b)

\* &s[a..]
SliceFrom(s, a) == SubSeq(s, a + 1, Len(s))

starts_with(s, p) == Len(p) <= Len(s) /\ SubSeq(s, 1, Len(p)) = p

ends_with(s, p) ==
    Len(p) <= Len(s) /\ SubSeq(s, Len(s) - Len(p) + 1, Len(s)) = p

\* str::find(char): the 0-based index of the first c, or -1
find_char(s, c) ==
    IF \E i \in 1..Len(s) : s[i] = c
    THEN (CHOOSE i \in 1..Len(s) : s[i] = c /\ \A j \in 1..(i - 1) : s[j] # c) - 1
    ELSE -1

\* str::rfind(char)
rfind_char(s, c) ==
    IF \E i \in 1..Len(s) : s[i] = c
    THEN (CHOOSE i \in 1..Len(s) :
              s[i] = c /\ \A j \in (i + 1)..Len(s) : s[j] # c) - 1
    ELSE -1

\* str::find(&str): the 0-based index of the first occurrence of p, or -1
find_str(s, p) ==
    LET hits == {i \in 0..(Len(s) - Len(p)) : Slice(s, i, i + Len(p)) = p}
    IN IF hits = {} THEN -1
       ELSE CHOOSE i \in hits : \A j \in hits : i <= j

\* whether the characters of p stand in s from the 0-based index i on
HasAt(s, i, p) == i >= 0 /\ i + Len(p) <= Len(s) /\ Slice(s, i, i + Len(p)) = p

contains_char(s, c) == \E i \in 1..Len(s) : s[i] = c

contains_str(s, p) == find_str(s, p) >= 0

\* the first index at or after `from` whose character is not a word
\* character, or Len(s): text_after.find(|c| !(alnum || '_'))
FirstNonWord(s) ==
    LET hits == {i \in 0..(Len(s) - 1) : ~IsWordChar(At(s, i))}
    IN IF hits = {} THEN -1
       ELSE CHOOSE i \in hits : \A j \in hits : i <= j

\* text_before.rfind(|c| !(alnum || '_'))
LastNonWord(s) ==
    LET hits == {i \in 0..(Len(s) - 1) : ~IsWordChar(At(s, i))}
    IN IF hits = {} THEN -1
       ELSE CHOOSE i \in hits : \A j \in hits : i >= j

RECURSIVE trim_start(_)
trim_start(s) ==
    IF s # <<>> /\ is_whitespace(Head(s)) THEN trim_start(Tail(s)) ELSE s

RECURSIVE trim_end(_)
trim_end(s) ==
    IF s # <<>> /\ is_whitespace(s[Len(s)])
    THEN trim_end(SubSeq(s, 1, Len(s) - 1))
    ELSE s

trim(s) == trim_end(trim_start(s))

RECURSIVE trim_end_matches(_, _)
trim_end_matches(s, c) ==
    IF s # <<>> /\ s[Len(s)] = c
    THEN trim_end_matches(SubSeq(s, 1, Len(s) - 1), c)
    ELSE s

\* str::trim_start_matches(&str): strips every leading repetition of p
RECURSIVE trim_start_matches(_, _)
trim_start_matches(s, p) ==
    IF p # <<>> /\ starts_with(s, p)
    THEN trim_start_matches(SliceFrom(s, Len(p)), p)
    ELSE s

\* str::split(char): always at least one piece
RECURSIVE split(_, _)
split(s, c) ==
    LET i == find_char(s, c)
    IN IF i < 0 THEN <<s>>
       ELSE <<Slice(s, 0, i)>> \o split(SliceFrom(s, i + 1), c)

\* str::split_whitespace: the non-empty maximal runs of non-whitespace
RECURSIVE split_whitespace(_)
split_whitespace(s) ==
    LET t == trim_start(s)
        ends == {i \in 0..(Len(t) - 1) : is_whitespace(At(t, i))}
        e == IF ends = {} THEN Len(t)
             ELSE CHOOSE i \in ends : \A j \in ends : i <= j
    IN IF t = <<>> THEN <<>>
       ELSE <<Slice(t, 0, e)>> \o split_whitespace(SliceFrom(t, e))

\* [&str]::join(sep)
RECURSIVE join(_, _)
join(parts, sep) ==
    IF parts = <<>> THEN <<>>
    ELSE IF Len(parts) = 1 THEN parts[1]
    ELSE parts[1] \o sep \o join(Tail(parts), sep)

\* str::lines: split at "\n", a trailing "\r" of a line dropped, no final
\* empty line
RECURSIVE lines(_)
lines(source) ==
    LET i == find_char(source, "\n")
        strip(l) == IF l # <<>> /\ l[Len(l)] = "\r"
                    THEN SubSeq(l, 1, Len(l) - 1) ELSE l
    IN IF source = <<>> THEN <<>>
       ELSE IF i < 0 THEN <<source>>
       ELSE <<strip(Slice(source, 0, i))>> \o lines(SliceFrom(source, i + 1))

----------------------------------------------------------------------------
(* Literals (parser.rs, parse_literal)                                     *)

IsDigits(s) == s # <<>> /\ \A i \in 1..Len(s) : s[i] \in Digits

DigitVal(c) == CHOOSE n \in 0..9 : <<"0", "1", "2", "3", "4", "5", "6", "7", "8", "9">>[n + 1] = c

\* a <= b for two digit strings of the same length
RECURSIVE DigitsLeq(_, _)
DigitsLeq(a, b) ==
    IF a = <<>> THEN TRUE
    ELSE IF DigitVal(Head(a)) < DigitVal(Head(b)) THEN TRUE
    ELSE IF DigitVal(Head(a)) > DigitVal(Head(b)) THEN FALSE
    ELSE DigitsLeq(Tail(a), Tail(b))

I64MaxDigits == <<"9", "2", "2", "3", "3", "7", "2", "0", "3", "6", "8", "5", "4", "7", "7", "5", "8", "0", "7">>

I64MinDigits == <<"9", "2", "2", "3", "3", "7", "2", "0", "3", "6", "8", "5", "4", "7", "7", "5", "8", "0", "8">>

\* text.parse::<i64>().is_ok(): an optional sign, digits, and no overflow of
\* the 64-bit range
parse_i64_ok(text) ==
    LET signed == text # <<>> /\ Head(text) \in {"+", "-"}
        body == IF signed THEN Tail(text) ELSE text
        mag == trim_start_matches(body, <<"0">>)
        limit == IF signed /\ Head(text) = "-" THEN I64MinDigits ELSE I64MaxDigits
    IN /\ IsDigits(body)
       /\ \/ Len(mag) < Len(limit)
          \/ Len(mag) = Len(limit) /\ DigitsLeq(mag, limit)

ToLower(c) ==
    CASE c = "I" -> "i" [] c = "N" -> "n" [] c = "F" -> "f" [] c = "T" -> "t"
      [] c = "Y" -> "y" [] c = "A" -> "a" [] OTHER -> c

\* the least element of a set of naturals, -1 for the empty set
MinOf(S) == IF S = {} THEN -1 ELSE CHOOSE i \in S : \A j \in S : i <= j

AllDigits(s) == \A i \in 1..Len(s) : s[i] \in Digits

\* digits [. digits] with the dot at index dot (-1: no dot) and a digit on
\* one side of it
IsMantissaAt(mant, dot) ==
    IF dot < 0 THEN IsDigits(mant)
    ELSE /\ AllDigits(Slice(mant, 0, dot))
         /\ AllDigits(SliceFrom(mant, dot + 1))
         /\ Len(mant) > 1

IsMantissa(mant) == IsMantissaAt(mant, find_char(mant, "."))

\* [sign] digits
IsExponent(exp) ==
    IsDigits(IF exp # <<>> /\ Head(exp) \in {"+", "-"} THEN Tail(exp) ELSE exp)

\* mantissa [(e|E) exponent] with the first e at index e (-1: none)
IsDecimalAt(body, e) ==
    IF e < 0 THEN IsMantissa(body)
    ELSE IsMantissa(Slice(body, 0, e)) /\ IsExponent(SliceFrom(body, e + 1))

\* inf, infinity or nan in any case
IsSpecialFloat(body) ==
    [i \in 1..Len(body) |-> ToLower(body[i])]
        \in {<<"i", "n", "f">>, <<"i", "n", "f", "i", "n", "i", "t", "y">>,
             <<"n", "a", "n">>}

IsFloatBody(body) ==
    \/ IsSpecialFloat(body)
    \/ IsDecimalAt(body, MinOf({i \in 0..(Len(body) - 1) : At(body, i) \in {"e", "E"}}))

\* text.parse::<f64>().is_ok(): [sign] (inf | infinity | nan, in any case)
\* or [sign] digits [. digits] [(e|E) [sign] digits] with a digit in the
\* mantissa
parse_f64_ok(text) ==
    IsFloatBody(IF text # <<>> /\ Head(text) \in {"+", "-"} THEN Tail(text) ELSE text)

Str_true == <<"t", "r", "u", "e">>

Str_false == <<"f", "a", "l", "s", "e">>

Str_null == <<"n", "u", "l", "l">>

\* parse_literal: Some(LiteralValue), None, or the panic of
\* &text[1..text.len() - 1] on a text that is one quote character
parse_literal(text) ==
    IF \/ starts_with(text, <<"\"">>) /\ ends_with(text, <<"\"">>)
       \/ starts_with(text, <<"'">>) /\ ends_with(text, <<"'">>)
    THEN IF 1 > Len(text) - 1 THEN Panic
         ELSE Some([kind |-> "String", content |-> Slice(text, 1, Len(text) - 1)])
    ELSE IF text = Str_true THEN Some([kind |-> "Boolean", value |-> TRUE])
    ELSE IF text = Str_false THEN Some([kind |-> "Boolean", value |-> FALSE])
    ELSE IF text = Str_null THEN Some([kind |-> "Null"])
    ELSE IF parse_i64_ok(text) THEN Some([kind |-> "Integer", digits |-> text])
    ELSE IF parse_f64_ok(text) THEN Some([kind |-> "Number", digits |-> text])
    ELSE None

\* find_matching_paren: the index of the ")" closing the "(" at open_idx
RECURSIVE MatchParenFrom(_, _, _)
MatchParenFrom(text, i, depth) ==
    IF i >= Len(text) THEN -1
    ELSE IF At(text, i) = "(" THEN MatchParenFrom(text, i + 1, depth + 1)
    ELSE IF At(text, i) = ")"
         THEN IF depth - 1 = 0 THEN i
              ELSE MatchParenFrom(text, i + 1, depth - 1)
    ELSE MatchParenFrom(text, i + 1, depth)

find_matching_paren(text, open_idx) == MatchParenFrom(text, open_idx, 0)

is_valid_identifier(text) ==
    /\ text # <<>>
    /\ is_alphabetic(Head(text)) \/ Head(text) = "_"
    /\ \A i \in 2..Len(text) : is_alphanumeric(text[i]) \/ text[i] = "_"

----------------------------------------------------------------------------
(* Expressions (parser.rs, parse_expression)                               *)

\* A ParseError.  The message is kept as the fixed text of the format
\* string followed by the characters of the formatted argument.
ParseError(message, line, column) ==
    [message |-> message, line |-> line, column |-> column]

Ok(v) == [tag |-> "Ok", value |-> v]

Err(e) == [tag |-> "Err", error |-> e]

\* the arguments of a call: every piece of args_str.split(',') parsed at its
\* offset, the pieces that fail to parse left out; "Panic" if one panics
RECURSIVE parse_expression(_, _, _)
RECURSIVE ParseArguments(_, _, _, _)

\* arguments.push(arg) for a piece that parsed
PushArgument(arg, rest) ==
    IF arg.tag = "Panic" \/ rest.tag = "Panic" THEN Panic
    ELSE IF arg.tag = "Ok" THEN Ok(<<arg.value>> \o rest.value)
    ELSE rest

\* arg_offset, with found the result of args_str.find(arg_str)
ArgOffset(args_str, found, base) ==
    base + Len(Slice(args_str, 0, IF found < 0 THEN 0 ELSE found))

ParseArguments(pieces, args_str, line_num, base) ==
    IF pieces = <<>> THEN Ok(<<>>)
    ELSE PushArgument(
             parse_expression(Head(pieces), line_num,
                              ArgOffset(args_str, find_str(args_str, Head(pieces)), base)),
             ParseArguments(Tail(pieces), args_str, line_num, base))

\* Expression::Call once the callee and the arguments are parsed; a callee
\* that fails is returned by the ? operator before any argument is parsed
CallOf(callee, arguments, line_num, column_offset) ==
    IF callee.tag # "Ok" THEN callee
    ELSE IF arguments.tag = "Panic" THEN Panic
    ELSE Ok([kind |-> "Call", callee |-> callee.value,
             arguments |-> arguments.value, line |-> line_num,
             column |-> column_offset])

\* the call branch, with the "(" at paren_idx and its match at end_paren_idx
\* (-1: none)
ParseCall(trimmed, paren_idx, end_paren_idx, line_num, column_offset) ==
    IF end_paren_idx < 0
    THEN Err(ParseError(<<"Unmatched parenthesis in function call">>,
                        line_num, column_offset + paren_idx))
    ELSE CallOf(parse_expression(trim(Slice(trimmed, 0, paren_idx)),
                                 line_num, column_offset),
                ParseArguments(split(Slice(trimmed, paren_idx + 1, end_paren_idx), ","),
                               Slice(trimmed, paren_idx + 1, end_paren_idx),
                               line_num, column_offset + paren_idx + 1),
                line_num, column_offset)

\* what follows the property branch: a call, an identifier, or the error
ParseCallOrName(trimmed, paren_idx, line_num, column_offset) ==
    IF paren_idx >= 0
    THEN ParseCall(trimmed, paren_idx, find_matching_paren(trimmed, paren_idx),
                   line_num, column_offset)
    ELSE IF is_valid_identifier(trimmed)
    THEN Ok([kind |-> "Variable", name |-> trimmed, line |-> line_num,
             column |-> column_offset])
    ELSE Err(ParseError(<<"Failed to parse expression: ">> \o trimmed,
                        line_num, column_offset))

\* Expression::PropertyAccess when the object parsed; otherwise the code
\* falls through to the call branch
PropertyOf(trimmed, dot_idx, property, object, line_num, column_offset) ==
    IF object.tag = "Panic" THEN Panic
    ELSE IF object.tag = "Ok"
    THEN Ok([kind |-> "PropertyAccess", object |-> object.value,
             property |-> property, line |-> line_num,
             column |-> column_offset + dot_idx + 1])
    ELSE ParseCallOrName(trimmed, find_char(trimmed, "("), line_num, column_offset)

\* the property branch, with the first "." at dot_idx (-1: none) and
\* property the trimmed text after it
ParseProperty(trimmed, dot_idx, property, line_num, column_offset) ==
    IF /\ dot_idx >= 0
       /\ ~contains_char(property, " ")
       /\ ~contains_char(property, ".")
       /\ ~contains_char(property, "(")
    THEN PropertyOf(trimmed, dot_idx, property,
                    parse_expression(trim(Slice(trimmed, 0, dot_idx)),
                                     line_num, column_offset),
                    line_num, column_offset)
    ELSE ParseCallOrName(trimmed, find_char(trimmed, "("), line_num, column_offset)

\* Expression::Literal when parse_literal gave a value
LiteralOr(trimmed, literal, dot_idx, line_num, column_offset) ==
    IF literal.tag = "Panic" THEN Panic
    ELSE IF literal.tag = "Some"
    THEN Ok([kind |-> "Literal", value |-> literal.value,
             line |-> line_num, column |-> column_offset])
    ELSE ParseProperty(trimmed, dot_idx, trim(SliceFrom(trimmed, dot_idx + 1)),
                       line_num, column_offset)

ParseTrimmed(trimmed, line_num, column_offset) ==
    IF trimmed = <<>>
    THEN Err(ParseError(<<"Empty expression">>, line_num, column_offset))
    ELSE LiteralOr(trimmed, parse_literal(trimmed), find_char(trimmed, "."),
                   line_num, column_offset)

parse_expression(expr_str, line_num, column_offset) ==
    ParseTrimmed(trim(expr_str), line_num, column_offset)

----------------------------------------------------------------------------
(* Declarations (parser.rs)                                                *)

\* ast.rs, Type: the parser only builds Type::Basic
Basic(name) == [kind |-> "Basic", name |-> name]

Str_var == <<"v", "a", "r">>

Str_let == <<"l", "e", "t">>

Str_const == <<"c", "o", "n", "s", "t">>

\* the initializer expression: the parts after "=" joined by one space,
\* without trailing ";", parsed at the column after the first "=" of line
ParseInitializer(parts, cur, line, eq, line_num) ==
    parse_expression(
        trim_end_matches(join(SubSeq(parts, cur + 1, Len(parts)), <<" ">>), ";"),
        line_num, (IF eq < 0 THEN 0 ELSE eq) + 1)

\* the node, with `current` at index cur of parts and init the parsed
\* initializer, examined only when current is "="
DeclareWith(parts, cur, data_type, init, line_num) ==
    IF Len(parts) < cur THEN None
    ELSE IF parts[cur] = <<"=">> /\ init.tag = "Panic" THEN Panic
    ELSE Some([kind |-> "VariableDeclaration",
               name |-> trim_end_matches(parts[2], ":"),
               initializer |-> IF parts[cur] = <<"=">> /\ init.tag = "Ok"
                               THEN Some(init.value) ELSE None,
               data_type |-> data_type,
               is_mutable |-> parts[1] # Str_const,
               line |-> line_num,
               column |-> 0])

\* the declaration read from the whitespace-separated parts of line: a type
\* is taken only when the third part is exactly ":"
DeclareFrom(parts, line, line_num) ==
    IF Len(parts) < 3 \/ parts[1] \notin {Str_var, Str_let, Str_const} THEN None
    ELSE DeclareWith(parts,
                     IF parts[3] = <<":">> THEN 5 ELSE 3,
                     IF parts[3] = <<":">> THEN Some(Basic(parts[4])) ELSE None,
                     ParseInitializer(parts, IF parts[3] = <<":">> THEN 5 ELSE 3,
                                      line, find_char(line, "="), line_num),
                     line_num)

parse_variable_declaration(line, line_num) ==
    DeclareFrom(split_whitespace(line), line, line_num)

\* the character at 0-based index i, or "" past the end
CharAt(s, i) == IF i >= 0 /\ i < Len(s) THEN s[i + 1] ELSE ""

\* \s*: the first index at or after i that holds no whitespace
RECURSIVE SkipWs(_, _)
SkipWs(s, i) == IF i < Len(s) /\ is_whitespace(At(s, i)) THEN SkipWs(s, i + 1) ELSE i

\* [a-zA-Z0-9_]*: the end of the run of word characters at i
RECURSIVE WordEnd(_, _)
WordEnd(s, i) == IF i < Len(s) /\ IsWordChar(At(s, i)) THEN WordEnd(s, i + 1) ELSE i

\* [a-zA-Z_][a-zA-Z0-9_]* at i: the index after it, or -1
IdentEnd(s, i) ==
    IF is_alphabetic(CharAt(s, i)) \/ CharAt(s, i) = "_" THEN WordEnd(s, i + 1) ELSE -1

\* \)(?:\s*:\s*([a-zA-Z_][a-zA-Z0-9_]*))?\s*\{ with the ")" at q: the
\* optional group is tried first, then the match without it
FnTail(s, q) ==
    LET j == SkipWs(s, q + 1)
        k == SkipWs(s, j + 1)
        ke == IdentEnd(s, k)
        withType == /\ CharAt(s, j) = ":"
                    /\ ke >= 0
                    /\ CharAt(s, SkipWs(s, ke)) = "{"
    IN IF CharAt(s, q) # ")" THEN [ok |-> FALSE]
       ELSE IF withType THEN [ok |-> TRUE, return_type |-> Some(Slice(s, k, ke))]
       ELSE IF CharAt(s, j) = "{" THEN [ok |-> TRUE, return_type |-> None]
       ELSE [ok |-> FALSE]

NoMatch == [ok |-> FALSE]

\* the captures of the function regex, with the name in i1..i2, the "(" at
\* i3 and the ")" ending the lazy group at q (-1: none)
FnMatchWith(s, i1, i2, i3, q) ==
    IF q < 0 THEN NoMatch
    ELSE [ok |-> TRUE, name |-> Slice(s, i1, i2),
          params_str |-> Slice(s, i3 + 1, q),
          return_type |-> FnTail(s, q).return_type]

\* \s*\((.*?)\) ... \{ after the name: the lazy group ends at the first ")"
\* from which the rest matches
FnMatchParams(s, i1, i2, i3) ==
    IF CharAt(s, i3) # "(" THEN NoMatch
    ELSE FnMatchWith(s, i1, i2, i3,
                     MinOf({c \in (i3 + 1)..(Len(s) - 1) : FnTail(s, c).ok}))

\* ([a-zA-Z_][a-zA-Z0-9_]*) at i1, ending at i2 (-1: no identifier)
FnMatchName(s, i1, i2) ==
    IF i2 < 0 THEN NoMatch ELSE FnMatchParams(s, i1, i2, SkipWs(s, i2))

\* the regex of parse_function_declaration tried at index p:
\* fn\s+(ident)\s*\((.*?)\) ... \{
FnMatchAt(s, p) ==
    IF HasAt(s, p, <<"f", "n">>) /\ SkipWs(s, p + 2) > p + 2
    THEN FnMatchName(s, SkipWs(s, p + 2), IdentEnd(s, SkipWs(s, p + 2)))
    ELSE NoMatch

FnMatchFound(s, p) == IF p < 0 THEN NoMatch ELSE FnMatchAt(s, p)

\* Regex::captures: the leftmost match
FnCaptures(s) ==
    FnMatchFound(s, MinOf({c \in 0..(Len(s) - 1) : FnMatchAt(s, c).ok}))

RECURSIVE ParseParams(_)
ParseParams(pieces) ==
    IF pieces = <<>> THEN <<>>
    ELSE LET param == trim(Head(pieces))
             parts == split(param, ":")
             typ == IF Len(parts) > 1 THEN Some(Basic(trim(parts[2]))) ELSE None
         IN IF param = <<>> THEN ParseParams(Tail(pieces))
            ELSE <<[name |-> trim(parts[1]), typ |-> typ]>> \o ParseParams(Tail(pieces))

parse_parameters(params_str) == ParseParams(split(params_str, ","))

Str_fn_sp == <<"f", "n", " ">>

FunctionDeclaration(captures, line, line_num) ==
    IF ~captures.ok THEN None
    ELSE Some([kind |-> "FunctionDeclaration",
               name |-> captures.name,
               params |-> parse_parameters(captures.params_str),
               return_type |-> IF captures.return_type.tag = "Some"
                               THEN Some(Basic(captures.return_type.value))
                               ELSE None,
               body |-> <<>>,
               line |-> line_num,
               column |-> find_str(line, <<"f", "n">>) + 1])

parse_function_declaration(line, line_num) ==
    IF ~starts_with(trim(line), Str_fn_sp) THEN None
    ELSE FunctionDeclaration(FnCaptures(line), line, line_num)

Str_struct == <<"s", "t", "r", "u", "c", "t">>

StructMatchName(s, i1, i2) ==
    IF i2 >= 0 /\ CharAt(s, SkipWs(s, i2)) = "{"
    THEN [ok |-> TRUE, name |-> Slice(s, i1, i2)]
    ELSE NoMatch

\* struct\s+([a-zA-Z_][a-zA-Z0-9_]*)\s*\{ tried at index p
StructMatchAt(s, p) ==
    IF HasAt(s, p, Str_struct) /\ SkipWs(s, p + 6) > p + 6
    THEN StructMatchName(s, SkipWs(s, p + 6), IdentEnd(s, SkipWs(s, p + 6)))
    ELSE NoMatch

StructMatchFound(s, p) == IF p < 0 THEN NoMatch ELSE StructMatchAt(s, p)

StructCaptures(s) ==
    StructMatchFound(s, MinOf({c \in 0..(Len(s) - 1) : StructMatchAt(s, c).ok}))

StructDeclaration(captures, line, line_num) ==
    IF ~captures.ok THEN None
    ELSE Some([kind |-> "StructDeclaration",
               name |-> captures.name,
               fields |-> <<>>,
               line |-> line_num,
               column |-> find_str(line, Str_struct) + 1])

parse_struct_declaration(line, line_num) ==
    IF ~starts_with(trim(line), Str_struct \o <<" ">>) THEN None
    ELSE StructDeclaration(StructCaptures(line), line, line_num)

Str_import == <<"i", "m", "p", "o", "r", "t">>

Str_from == <<"f", "r", "o", "m">>

\* "(.+?)" with the opening quote at index a: the index of the closing
\* quote, the first one that leaves at least one character, or -1
PathEnd(s, a) ==
    IF CharAt(s, a) # "\"" THEN -1
    ELSE MinOf({c \in (a + 2)..(Len(s) - 1) : At(s, c) = "\""})

\* \}\s+from\s+"(.+?)" with the "}" at index r: the index of the opening
\* quote of the path, or -1
ImportItemsTail(s, r) ==
    LET j == SkipWs(s, r + 1)
        k == SkipWs(s, j + 4)
    IN IF /\ CharAt(s, r) = "}"
          /\ j > r + 1
          /\ HasAt(s, j, Str_from)
          /\ k > j + 4
          /\ PathEnd(s, k) >= 0
       THEN k ELSE -1

\* the captures with the item list in i1+1..r and the path opened at a
ImportMatchItems(s, i1, r, a) ==
    [ok |-> TRUE, items |-> Some(Slice(s, i1 + 1, r)),
     path |-> Slice(s, a + 1, PathEnd(s, a))]

\* the optional group, tried first with its lazy list ending at the first
\* "}" at r from which the rest matches (-1: none), then the path alone
ImportMatchRest(s, i1, r) ==
    IF CharAt(s, i1) = "{" /\ r >= 0
    THEN ImportMatchItems(s, i1, r, ImportItemsTail(s, r))
    ELSE IF PathEnd(s, i1) >= 0
    THEN [ok |-> TRUE, items |-> None, path |-> Slice(s, i1 + 1, PathEnd(s, i1))]
    ELSE NoMatch

ImportMatchFrom(s, i1) ==
    ImportMatchRest(s, i1,
        MinOf({c \in (i1 + 1)..(Len(s) - 1) : ImportItemsTail(s, c) >= 0}))

\* import\s+(?:\{(.*?)\}\s+from\s+)?"(.+?)" tried at index p
ImportMatchAt(s, p) ==
    IF HasAt(s, p, Str_import) /\ SkipWs(s, p + 6) > p + 6
    THEN ImportMatchFrom(s, SkipWs(s, p + 6))
    ELSE NoMatch

ImportMatchFound(s, p) == IF p < 0 THEN NoMatch ELSE ImportMatchAt(s, p)

ImportCaptures(s) ==
    ImportMatchFound(s, MinOf({c \in 0..(Len(s) - 1) : ImportMatchAt(s, c).ok}))

\* the items of the list, each trimmed
ImportedItems(pieces) == [i \in 1..Len(pieces) |-> trim(pieces[i])]

ImportDeclaration(captures, line, line_num) ==
    IF ~captures.ok THEN None
    ELSE Some([kind |-> "ImportDeclaration",
               path |-> captures.path,
               imported_items |-> IF captures.items.tag = "Some"
                                  THEN ImportedItems(split(captures.items.value, ","))
                                  ELSE <<>>,
               line |-> line_num,
               column |-> find_str(line, Str_import) + 1])

parse_import_declaration(line, line_num) ==
    IF ~starts_with(trim(line), Str_import \o <<" ">>) THEN None
    ELSE ImportDeclaration(ImportCaptures(line), line, line_num)

----------------------------------------------------------------------------
(* parse (parser.rs)                                                       *)

\* One iteration of the loop of parse over a line gives the node pushed,
\* the error pushed, nothing, or a panic.
Skip == [tag |-> "Skip"]

NodeOf(decl) == [tag |-> "Node", node |-> decl.value]

\* the match on parse_expression: an error is pushed unless the line holds
\* only whitespace and braces
ExpressionLine(trimmed, expr, line_num) ==
    IF expr.tag = "Panic" THEN Panic
    ELSE IF expr.tag = "Ok"
    THEN [tag |-> "Node",
          node |-> [kind |-> "ExpressionStatement", expression |-> expr.value,
                    line |-> line_num, column |-> 0]]
    ELSE IF \A i \in 1..Len(trimmed) :
                is_whitespace(trimmed[i]) \/ trimmed[i] \in {"{", "}"}
    THEN Skip
    ELSE [tag |-> "Error", error |-> expr.error]

\* the else branch: closing brackets are skipped
StatementLine(trimmed, line_num) ==
    IF \/ starts_with(trimmed, <<"}">>)
       \/ starts_with(trimmed, <<")">>)
       \/ starts_with(trimmed, <<"]">>)
    THEN Skip
    ELSE ExpressionLine(trimmed, parse_expression(trimmed, line_num, 0), line_num)

ImportLine(trimmed, import_decl, line_num) ==
    IF import_decl.tag = "Some" THEN NodeOf(import_decl)
    ELSE StatementLine(trimmed, line_num)

StructLine(trimmed, struct_decl, line_num) ==
    IF struct_decl.tag = "Some" THEN NodeOf(struct_decl)
    ELSE ImportLine(trimmed, parse_import_declaration(trimmed, line_num), line_num)

FunctionLine(trimmed, fn_decl, line_num) ==
    IF fn_decl.tag = "Some" THEN NodeOf(fn_decl)
    ELSE StructLine(trimmed, parse_struct_declaration(trimmed, line_num), line_num)

VariableLine(trimmed, var_decl, line_num) ==
    IF var_decl.tag = "Panic" THEN Panic
    ELSE IF var_decl.tag = "Some" THEN NodeOf(var_decl)
    ELSE FunctionLine(trimmed, parse_function_declaration(trimmed, line_num), line_num)

TrimmedLine(trimmed, line_num) ==
    IF trimmed = <<>> \/ starts_with(trimmed, <<"/", "/">>) THEN Skip
    ELSE VariableLine(trimmed, parse_variable_declaration(trimmed, line_num), line_num)

ParseLine(line, line_num) == TrimmedLine(trim(line), line_num)

\* a variant of PushLine that gives up after the first error
PushLineFirstError(this, rest) ==
    IF this.tag = "Panic" \/ rest.tag = "Panic" THEN Panic
    ELSE [tag |-> "Done",
          nodes |-> (IF this.tag = "Node" THEN <<this.node>> ELSE <<>>) \o rest.nodes,
          errors |-> IF this.tag = "Error" THEN <<this.error>> ELSE rest.errors]

\* nodes.push / errors.push of one line in front of those of the later lines
PushLine(this, rest) ==
    IF this.tag = "Panic" \/ rest.tag = "Panic" THEN Panic
    ELSE [tag |-> "Done",
          nodes |-> (IF this.tag = "Node" THEN <<this.node>> ELSE <<>>) \o rest.nodes,
          errors |-> (IF this.tag = "Error" THEN <<this.error>> ELSE <<>>)
                     \o rest.errors]

\* the loop of parse from line index line_idx on: the nodes and the errors
\* collected, or "Panic"
RECURSIVE ParseLines(_, _)
ParseLines(ls, line_idx) ==
    IF line_idx >= Len(ls) THEN [tag |-> "Done", nodes |-> <<>>, errors |-> <<>>]
    ELSE PushLine(ParseLine(At(ls, line_idx), line_idx + 1),
                  ParseLines(ls, line_idx + 1))

\* the result of parse from what the loop collected
ParseResult(r) ==
    IF r.tag = "Panic" THEN Panic
    ELSE IF r.errors = <<>> THEN [tag |-> "Ok", nodes |-> r.nodes]
    ELSE [tag |-> "Err", errors |-> r.errors]

\* parse: Ok(Ast { nodes }) when no line produced an error, Err(errors)
\* otherwise
parse(source) == ParseResult(ParseLines(lines(source), 0))

----------------------------------------------------------------------------
(* The type table (ast.rs, typechecker.rs)                                 *)

Str_any == <<"a", "n", "y">>

Str_void == <<"v", "o", "i", "d">>

Str_String == <<"S", "t", "r", "i", "n", "g">>

Str_Number == <<"N", "u", "m", "b", "e", "r">>

Str_Boolean == <<"B", "o", "o", "l", "e", "a", "n">>

Str_Array == <<"A", "r", "r", "a", "y">>

Str_Object == <<"O", "b", "j", "e", "c", "t">>

Str_Date == <<"D", "a", "t", "e">>

Str_Http == <<"H", "t", "t", "p">>

Str_Time == <<"T", "i", "m", "e">>

Str_type == <<"t", "y", "p", "e">>

Str_class == <<"c", "l", "a", "s", "s">>

Str_namespace == <<"n", "a", "m", "e", "s", "p", "a", "c", "e">>

Str_struct_sp == Str_struct \o <<" ">>

\* ast.rs, impl ToString for Type
RECURSIVE TypeToString(_)
RECURSIVE JoinTypes(_, _)
JoinTypes(types, sep) ==
    IF types = <<>> THEN <<>>
    ELSE IF Len(types) = 1 THEN TypeToString(types[1])
    ELSE TypeToString(types[1]) \o sep \o JoinTypes(Tail(types), sep)

TypeToString(t) ==
    CASE t.kind = "Basic" -> t.name
      [] t.kind = "Array" -> TypeToString(t.elem) \o <<"[", "]">>
      [] t.kind = "Function" ->
            <<"f", "n", "(">> \o JoinTypes(t.params, <<",", " ">>)
            \o <<")", " ", "-", ">", " ">> \o TypeToString(t.return_type)
      [] t.kind = "Optional" -> TypeToString(t.inner) \o <<"?">>
      [] t.kind = "Union" -> JoinTypes(t.types, <<" ", "|", " ">>)

\* a variant of HashMap::insert that keeps the entry of a key already present
InsertKeepingPrior(m, k, v) ==
    [x \in DOMAIN m \cup {k} |-> IF x \in DOMAIN m THEN m[x] ELSE v]

\* a variant of HashMap::insert that drops every other entry
InsertAlone(m, k, v) == [x \in {k} |-> v]

\* HashMap::insert
Insert(m, k, v) == [x \in DOMAIN m \cup {k} |-> IF x = k THEN v ELSE m[x]]

\* HashMap::remove
Remove(m, k) == [x \in DOMAIN m \ {k} |-> m[x]]

EmptyMap == [x \in {} |-> <<>>]

\* a variant of ParamTypes that ignores the annotations of the parameters
ParamTypesAllAny(params) == [i \in 1..Len(params) |-> Str_any]

\* the type strings of the parameters of a function declaration
ParamTypes(params) ==
    [i \in 1..Len(params) |->
        IF params[i].typ.tag = "Some" THEN TypeToString(params[i].typ.value)
        ELSE Str_any]

\* a variant of DeclaredType that records variable declarations only
DeclaredTypeOfVariable(node) ==
    IF node.kind = "VariableDeclaration"
    THEN Some(IF node.data_type.tag = "Some"
              THEN TypeToString(node.data_type.value) ELSE Str_any)
    ELSE None

\* the entry check_types inserts for one top-level node, if any
DeclaredType(node) ==
    CASE node.kind = "VariableDeclaration" ->
            Some(IF node.data_type.tag = "Some"
                 THEN TypeToString(node.data_type.value) ELSE Str_any)
      [] node.kind = "FunctionDeclaration" ->
            Some(<<"f", "n", "(">> \o join(ParamTypes(node.params), <<",", " ">>)
                 \o <<")", "-", ">">>
                 \o (IF node.return_type.tag = "Some"
                     THEN TypeToString(node.return_type.value) ELSE Str_void))
      [] node.kind = "StructDeclaration" -> Some(Str_struct_sp \o node.name)
      [] OTHER -> None

\* the loop of check_types over ast.nodes: variable_types
RECURSIVE VariableTypes(_, _)
VariableTypes(nodes, variable_types) ==
    IF nodes = <<>> THEN variable_types
    ELSE LET d == DeclaredType(Head(nodes))
         IN VariableTypes(Tail(nodes),
                          IF d.tag = "Some"
                          THEN Insert(variable_types, Head(nodes).name, d.value)
                          ELSE variable_types)

\* check_types never pushes to its error list
TypeErrors(nodes) == <<>>

\* the built-in registry at the end of get_variable_type
BuiltinType(variable_name) ==
    CASE variable_name \in {Str_String, Str_Number, Str_Boolean, Str_Array, Str_Object}
            -> Some(Str_type)
      [] variable_name = Str_Date -> Some(Str_class)
      [] variable_name \in {Str_Http, Str_Time} -> Some(Str_namespace)
      [] OTHER -> None

\* get_variable_type over a current-file pointer and an environment map
VariableTypeIn(cur, envs, variable_name) ==
    IF cur.tag = "Some" /\ cur.value \in DOMAIN envs
    THEN IF variable_name \in DOMAIN envs[cur.value]
         THEN Some(envs[cur.value][variable_name])
         ELSE None
    ELSE BuiltinType(variable_name)

get_variable_type(variable_name) ==
    VariableTypeIn(current_file, variables, variable_name)

----------------------------------------------------------------------------
(* Member lookup (typechecker.rs, get_property_type)                       *)
(* The signatures, glossary texts and completion details are fixed texts   *)
(* that are never sliced or compared with document text: each is kept as   *)
(* one element.                                                            *)

StringProperty(property_name) ==
    CASE FALSE -> None
      [] property_name = <<"l", "e", "n", "g", "t", "h">> -> Some(<<"number">>)
      [] property_name = <<"t", "o", "U", "p", "p", "e", "r", "C", "a", "s", "e">> -> Some(<<"fn()->String">>)
      [] property_name = <<"t", "o", "L", "o", "w", "e", "r", "C", "a", "s", "e">> -> Some(<<"fn()->String">>)
      [] property_name = <<"s", "u", "b", "s", "t", "r", "i", "n", "g">> -> Some(<<"fn(number, number)->String">>)
      [] OTHER -> None

ArrayProperty(property_name) ==
    CASE FALSE -> None
      [] property_name = <<"l", "e", "n", "g", "t", "h">> -> Some(<<"number">>)
      [] property_name = <<"p", "u", "s", "h">> -> Some(<<"fn(any)->number">>)
      [] property_name = <<"p", "o", "p">> -> Some(<<"fn()->any">>)
      [] property_name = <<"j", "o", "i", "n">> -> Some(<<"fn(String)->String">>)
      [] OTHER -> None

DateProperty(property_name) ==
    CASE FALSE -> None
      [] property_name = <<"g", "e", "t", "T", "i", "m", "e">> -> Some(<<"fn()->number">>)
      [] property_name = <<"g", "e", "t", "D", "a", "y">> -> Some(<<"fn()->number">>)
      [] property_name = <<"g", "e", "t", "M", "o", "n", "t", "h">> -> Some(<<"fn()->number">>)
      [] property_name = <<"g", "e", "t", "F", "u", "l", "l", "Y", "e", "a", "r">> -> Some(<<"fn()->number">>)
      [] OTHER -> None

HttpProperty(property_name) ==
    CASE FALSE -> None
      [] property_name = <<"g", "e", "t">> -> Some(<<"fn(String)->HttpResponse">>)
      [] property_name = <<"p", "o", "s", "t">> -> Some(<<"fn(String, Object)->HttpResponse">>)
      [] OTHER -> None

TimeProperty(property_name) ==
    CASE FALSE -> None
      [] property_name = <<"n", "o", "w">> -> Some(<<"fn()->number">>)
      [] property_name = <<"s", "l", "e", "e", "p">> -> Some(<<"fn(number)->void">>)
      [] OTHER -> None

\* get_property_type over a current-file pointer
PropertyTypeIn(cur, object_type, property_name) ==
    CASE object_type = Str_String -> StringProperty(property_name)
      [] object_type = Str_Array -> ArrayProperty(property_name)
      [] object_type = Str_Date -> DateProperty(property_name)
      [] object_type = Str_Http -> HttpProperty(property_name)
      [] object_type = Str_Time -> TimeProperty(property_name)
      [] OTHER -> IF starts_with(object_type, Str_struct_sp) /\ cur.tag = "Some"
                  THEN Some(Str_any)
                  ELSE None

get_property_type(object_type, property_name) ==
    PropertyTypeIn(current_file, object_type, property_name)

----------------------------------------------------------------------------
(* Positions (utils.rs)                                                    *)

RECURSIVE SumLineLengths(_, _)
SumLineLengths(ls, n) ==
    IF n = 0 THEN 0 ELSE Len(ls[n]) + 1 + SumLineLengths(ls, n - 1)

Min(a, b) == IF a < b THEN a ELSE b

\* position_to_offset
position_to_offset(text, line, character) ==
    LET ls == lines(text)
    IN IF line >= Len(ls) THEN Err("InvalidParams")
       ELSE Ok(SumLineLengths(ls, line) + Min(character, Len(ls[line + 1])))

\* offset_to_position
offset_to_position(text, offset) ==
    LET before == Slice(text, 0, offset)
        nl == {i \in 1..Len(before) : before[i] = "\n"}
        lastNl == IF nl = {} THEN 0 ELSE CHOOSE i \in nl : \A j \in nl : j <= i
    IN IF offset > Len(text) THEN Err("InvalidParams")
       ELSE Ok([line |-> Cardinality(nl), character |-> Len(before) - lastNl])

\* find_word_at_offset, and get_word_range_at_position of hover.rs, which
\* is the same code
find_word_at_offset(text, offset) ==
    LET text_before == Slice(text, 0, offset)
        text_after == SliceFrom(text, offset)
        start == LastNonWord(text_before) + 1
        e == FirstNonWord(text_after)
        end == offset + (IF e < 0 THEN Len(text_after) ELSE e)
    IN IF offset >= Len(text) THEN None
       ELSE IF end > start THEN Some([start |-> start, end |-> end])
       ELSE None

----------------------------------------------------------------------------
(* Hover (hover.rs)                                                        *)

check_for_dot_access(text, offset) ==
    LET text_before == Slice(text, 0, offset)
        text_after == SliceFrom(text, offset)
        property_start == rfind_char(text_before, ".")
        object_end == property_start
        object_start == LastNonWord(Slice(text_before, 0, object_end)) + 1
        object_name == trim(Slice(text_before, object_start, object_end))
        after_dot == property_start + 1
        e == FirstNonWord(text_after)
        property_end == after_dot + (IF e < 0 THEN Len(text_after) ELSE e)
        property_name == trim(Slice(text, after_dot, property_end))
    IN IF property_start < 0 THEN None
       ELSE IF object_name # <<>> /\ property_name # <<>>
       THEN Some([object_name |-> object_name, property_name |-> property_name])
       ELSE None

get_keyword_info(keyword) ==
    CASE FALSE -> None
      [] keyword = <<"f", "n">> -> Some(<<"Function declaration keyword">>)
      [] keyword = <<"r", "e", "t", "u", "r", "n">> -> Some(<<"Return statement keyword">>)
      [] keyword = <<"i", "f">> -> Some(<<"Conditional statement keyword">>)
      [] keyword = <<"e", "l", "s", "e">> -> Some(<<"Conditional statement keyword">>)
      [] keyword = <<"w", "h", "i", "l", "e">> -> Some(<<"Loop keyword">>)
      [] keyword = <<"f", "o", "r">> -> Some(<<"Loop keyword">>)
      [] keyword = <<"i", "n">> -> Some(<<"Loop/iterator keyword">>)
      [] keyword = <<"v", "a", "r">> -> Some(<<"Variable declaration keyword">>)
      [] keyword = <<"c", "o", "n", "s", "t">> -> Some(<<"Constant declaration keyword">>)
      [] keyword = <<"l", "e", "t">> -> Some(<<"Block scoped variable declaration keyword">>)
      [] keyword = <<"i", "m", "p", "o", "r", "t">> -> Some(<<"Module import keyword">>)
      [] keyword = <<"s", "t", "r", "u", "c", "t">> -> Some(<<"Structure definition keyword">>)
      [] keyword = <<"t", "y", "p", "e">> -> Some(<<"Type alias declaration keyword">>)
      [] keyword = <<"t", "r", "u", "e">> -> Some(<<"Boolean literal">>)
      [] keyword = <<"f", "a", "l", "s", "e">> -> Some(<<"Boolean literal">>)
      [] keyword = <<"n", "u", "l", "l">> -> Some(<<"Null literal">>)
      [] keyword = <<"c", "l", "a", "s", "s">> -> Some(<<"Class definition keyword">>)
      [] OTHER -> None

\* the code fences of the markdown are written ~~~
get_builtin_info(function_name) ==
    CASE FALSE -> None
      [] function_name = <<"p", "r", "i", "n", "t">> ->
            Some(<<"~~~burn\nfn print(value: any) -> void\n~~~\n\nPrints a value to the console.">>)
      [] function_name = <<"p", "r", "i", "n", "t", "l", "n">> ->
            Some(<<"~~~burn\nfn println(value: any) -> void\n~~~\n\nPrints a value to the console with a newline.">>)
      [] function_name = <<"l", "e", "n">> ->
            Some(<<"~~~burn\nfn len(collection: any) -> number\n~~~\n\nReturns the length of an array, string, or collection.">>)
      [] function_name = <<"t", "y", "p", "e", "o", "f">> ->
            Some(<<"~~~burn\nfn typeof(value: any) -> string\n~~~\n\nReturns the type of a value as a string.">>)
      [] function_name = <<"p", "a", "r", "s", "e", "I", "n", "t">> ->
            Some(<<"~~~burn\nfn parseInt(str: string) -> number\n~~~\n\nParses a string into an integer number.">>)
      [] function_name = <<"p", "a", "r", "s", "e", "F", "l", "o", "a", "t">> ->
            Some(<<"~~~burn\nfn parseFloat(str: string) -> number\n~~~\n\nParses a string into a floating-point number.">>)
      [] OTHER -> None

\* format!("**{}**: {}", name, info)
HoverMarkup(name, info) == <<"*", "*">> \o name \o <<"*", "*", ":", " ">> \o info

\* get_property_hover
get_property_hover(cur, envs, object_name, property_name) ==
    LET object_type == VariableTypeIn(cur, envs, object_name)
        property_info == PropertyTypeIn(cur, object_type.value, property_name)
    IN IF object_type.tag = "Some" /\ property_info.tag = "Some"
       THEN Ok(Some([value |-> HoverMarkup(property_name, property_info.value),
                     range |-> None]))
       ELSE Ok(None)

\* on_hover, over the current-file pointer and the environment map it
\* reads through the type checker
on_hover(cur, envs, document, line, character) ==
    LET off == position_to_offset(document, line, character)
        offset == off.value
        dot == check_for_dot_access(document, offset)
        word_range == find_word_at_offset(document, offset)
        word == Slice(document, word_range.value.start, word_range.value.end)
        range == Some([start |-> offset_to_position(document, word_range.value.start).value,
                       end |-> offset_to_position(document, word_range.value.end).value])
        var_type == VariableTypeIn(cur, envs, word)
        keyword_info == get_keyword_info(word)
        builtin_info == get_builtin_info(word)
    IN IF off.tag = "Err" THEN off
       ELSE IF dot.tag = "Some"
       THEN get_property_hover(cur, envs, dot.value.object_name, dot.value.property_name)
       ELSE IF word_range.tag = "None" THEN Ok(None)
       ELSE IF var_type.tag = "Some"
       THEN Ok(Some([value |-> HoverMarkup(word, var_type.value), range |-> range]))
       ELSE IF keyword_info.tag = "Some"
       THEN Ok(Some([value |-> HoverMarkup(word, keyword_info.value), range |-> range]))
       ELSE IF builtin_info.tag = "Some"
       THEN Ok(Some([value |-> builtin_info.value, range |-> range]))
       ELSE Ok(None)

----------------------------------------------------------------------------
(* Completion (typechecker.rs, get_completions)                            *)

CompletionItem(label, kind, detail) == [label |-> label, kind |-> kind, detail |-> detail]

\* a table of (name, detail, kind) rows as completion items
MemberItems(rows) ==
    [i \in 1..Len(rows) |-> CompletionItem(rows[i][1], rows[i][3], Some(rows[i][2]))]

add_string_completions ==
    MemberItems(<<
      <<<<"l", "e", "n", "g", "t", "h">>, <<"number">>, "PROPERTY">>,
      <<<<"t", "o", "U", "p", "p", "e", "r", "C", "a", "s", "e">>, <<"fn()->String">>, "METHOD">>,
      <<<<"t", "o", "L", "o", "w", "e", "r", "C", "a", "s", "e">>, <<"fn()->String">>, "METHOD">>,
      <<<<"s", "u", "b", "s", "t", "r", "i", "n", "g">>, <<"fn(number, number)->String">>, "METHOD">>,
      <<<<"i", "n", "d", "e", "x", "O", "f">>, <<"fn(String)->number">>, "METHOD">>,
      <<<<"s", "p", "l", "i", "t">>, <<"fn(String)->Array">>, "METHOD">>
    >>)

add_array_completions ==
    MemberItems(<<
      <<<<"l", "e", "n", "g", "t", "h">>, <<"number">>, "PROPERTY">>,
      <<<<"p", "u", "s", "h">>, <<"fn(any)->number">>, "METHOD">>,
      <<<<"p", "o", "p">>, <<"fn()->any">>, "METHOD">>,
      <<<<"s", "h", "i", "f", "t">>, <<"fn()->any">>, "METHOD">>,
      <<<<"u", "n", "s", "h", "i", "f", "t">>, <<"fn(any)->number">>, "METHOD">>,
      <<<<"j", "o", "i", "n">>, <<"fn(String)->String">>, "METHOD">>,
      <<<<"m", "a", "p">>, <<"fn(fn(any)->any)->Array">>, "METHOD">>,
      <<<<"f", "i", "l", "t", "e", "r">>, <<"fn(fn(any)->Boolean)->Array">>, "METHOD">>
    >>)

add_date_completions ==
    MemberItems(<<
      <<<<"g", "e", "t", "T", "i", "m", "e">>, <<"fn()->number">>, "METHOD">>,
      <<<<"g", "e", "t", "D", "a", "y">>, <<"fn()->number">>, "METHOD">>,
      <<<<"g", "e", "t", "M", "o", "n", "t", "h">>, <<"fn()->number">>, "METHOD">>,
      <<<<"g", "e", "t", "F", "u", "l", "l", "Y", "e", "a", "r">>, <<"fn()->number">>, "METHOD">>,
      <<<<"g", "e", "t", "H", "o", "u", "r", "s">>, <<"fn()->number">>, "METHOD">>,
      <<<<"g", "e", "t", "M", "i", "n", "u", "t", "e", "s">>, <<"fn()->number">>, "METHOD">>,
      <<<<"g", "e", "t", "S", "e", "c", "o", "n", "d", "s">>, <<"fn()->number">>, "METHOD">>
    >>)

add_http_completions ==
    MemberItems(<<
      <<<<"g", "e", "t">>, <<"fn(String)->HttpResponse">>, "METHOD">>,
      <<<<"p", "o", "s", "t">>, <<"fn(String, Object)->HttpResponse">>, "METHOD">>,
      <<<<"p", "u", "t">>, <<"fn(String, Object)->HttpResponse">>, "METHOD">>,
      <<<<"d", "e", "l", "e", "t", "e">>, <<"fn(String)->HttpResponse">>, "METHOD">>
    >>)

add_time_completions ==
    MemberItems(<<
      <<<<"n", "o", "w">>, <<"fn()->number">>, "METHOD">>,
      <<<<"s", "l", "e", "e", "p">>, <<"fn(number)->void">>, "METHOD">>
    >>)

default_property_completions ==
    MemberItems(<<
      <<<<"l", "e", "n", "g", "t", "h">>, <<"property">>, "PROPERTY">>,
      <<<<"n", "a", "m", "e">>, <<"property">>, "PROPERTY">>,
      <<<<"t", "o", "S", "t", "r", "i", "n", "g">>, <<"fn()->String">>, "METHOD">>,
      <<<<"v", "a", "l", "u", "e", "O", "f">>, <<"fn()->any">>, "METHOD">>
    >>)

Keywords ==
    <<<<"f", "n">>,
      <<"r", "e", "t", "u", "r", "n">>,
      <<"i", "f">>,
      <<"e", "l", "s", "e">>,
      <<"w", "h", "i", "l", "e">>,
      <<"f", "o", "r">>,
      <<"i", "n">>,
      <<"v", "a", "r">>,
      <<"c", "o", "n", "s", "t">>,
      <<"l", "e", "t">>,
      <<"i", "m", "p", "o", "r", "t">>,
      <<"s", "t", "r", "u", "c", "t">>,
      <<"t", "y", "p", "e">>,
      <<"t", "r", "u", "e">>,
      <<"f", "a", "l", "s", "e">>,
      <<"n", "u", "l", "l">>,
      <<"c", "l", "a", "s", "s">>,
      <<"b", "r", "e", "a", "k">>,
      <<"c", "o", "n", "t", "i", "n", "u", "e">>,
      <<"s", "w", "i", "t", "c", "h">>,
      <<"c", "a", "s", "e">>,
      <<"d", "e", "f", "a", "u", "l", "t">>>>

add_keyword_completions ==
    [i \in 1..Len(Keywords) |-> CompletionItem(Keywords[i], "KEYWORD", None)]

TypeNames ==
    <<<<"S", "t", "r", "i", "n", "g">>,
      <<"N", "u", "m", "b", "e", "r">>,
      <<"B", "o", "o", "l", "e", "a", "n">>,
      <<"A", "r", "r", "a", "y">>,
      <<"O", "b", "j", "e", "c", "t">>,
      <<"D", "a", "t", "e">>,
      <<"F", "u", "n", "c", "t", "i", "o", "n">>,
      <<"a", "n", "y">>,
      <<"v", "o", "i", "d">>>>

add_type_completions ==
    [i \in 1..Len(TypeNames) |-> CompletionItem(TypeNames[i], "CLASS", None)]

add_builtin_function_completions ==
    MemberItems(<<
      <<<<"p", "r", "i", "n", "t">>, <<"fn(any)->void">>, "FUNCTION">>,
      <<<<"p", "r", "i", "n", "t", "l", "n">>, <<"fn(any)->void">>, "FUNCTION">>,
      <<<<"l", "e", "n">>, <<"fn(collection)->Number">>, "FUNCTION">>,
      <<<<"t", "y", "p", "e", "o", "f">>, <<"fn(any)->String">>, "FUNCTION">>,
      <<<<"p", "a", "r", "s", "e", "I", "n", "t">>, <<"fn(String)->Number">>, "FUNCTION">>,
      <<<<"p", "a", "r", "s", "e", "F", "l", "o", "a", "t">>, <<"fn(String)->Number">>, "FUNCTION">>
    >>)

\* the items of the dot branch of get_completions for an object type
MemberCompletions(object_type) ==
    CASE object_type = Str_String -> add_string_completions
      [] object_type = Str_Array -> add_array_completions
      [] object_type = Str_Date -> add_date_completions
      [] object_type = Str_Http -> add_http_completions
      [] object_type = Str_Time -> add_time_completions
      [] OTHER -> <<>>

\* the sequences that list each element of a finite set once: the orders
\* in which a HashMap may be iterated
Orders(S) ==
    {q \in [1..Cardinality(S) -> S] : \A i, j \in 1..Cardinality(S) : i # j => q[i] # q[j]}

\* the variables of the current file that the last loop of get_completions
\* appends, in the iteration order `order`; nothing when the current file
\* is unset, try_lock fails or the file has no environment
VariableItems(cur, envs, order) ==
    [i \in 1..Len(order) |->
        CompletionItem(order[i], "VARIABLE", Some(envs[cur.value][order[i]]))]

\* the names the last loop iterates over; `locked` is the result of
\* variables.try_lock()
IteratedNames(cur, envs, locked) ==
    IF cur.tag = "Some" /\ locked /\ cur.value \in DOMAIN envs
    THEN DOMAIN envs[cur.value]
    ELSE {}

\* get_completions
get_completions(cur, envs, locked, order, document, line, character) ==
    LET off == position_to_offset(document, line, character)
        text_before == Slice(document, 0, off.value)
        dotted == /\ off.tag = "Ok"
                  /\ text_before # <<>>
                  /\ text_before[Len(text_before)] = "."
        property_start == rfind_char(text_before, ".")
        object_end == property_start
        object_start == LastNonWord(Slice(text_before, 0, object_end)) + 1
        object_name == trim(Slice(text_before, object_start, object_end))
        object_type == VariableTypeIn(cur, envs, object_name)
    IN IF dotted
       THEN IF object_type.tag = "Some" THEN MemberCompletions(object_type.value)
            ELSE default_property_completions
       ELSE add_keyword_completions \o add_type_completions
            \o add_builtin_function_completions \o VariableItems(cur, envs, order)

----------------------------------------------------------------------------
(* The inputs of the model                                                 *)

UriA == "file:///a.bn"

UriB == "file:///b.bn"

Uris == {UriA, UriB}

\* var x: String = "hi"
TextHi == <<"v", "a", "r", " ", "x", ":", " ", "S", "t", "r", "i", "n", "g", " ", "=", " ", "\"", "h", "i", "\"">>

\* the same line followed by the line x.
TextHiDot == <<"v", "a", "r", " ", "x", ":", " ", "S", "t", "r", "i", "n", "g", " ", "=", " ", "\"", "h", "i", "\"", "\n", "x", ".">>

\* the declaration with the colon set off by spaces, followed by x.
TextSpaced == <<"v", "a", "r", " ", "x", " ", ":", " ", "S", "t", "r", "i", "n", "g", " ", "=", " ", "\"", "h", "i", "\"", "\n", "x", ".">>

\* four declarations, two of them of the name a
TextDecls == <<"v", "a", "r", " ", "a", " ", "=", " ", "1", "\n", "f", "n", " ", "f", "(", "p", ":", " ", "N", "u", "m", "b", "e", "r", ")", ":", " ", "N", "u", "m", "b", "e", "r", " ", "{", "\n", "s", "t", "r", "u", "c", "t", " ", "P", " ", "{", "\n", "v", "a", "r", " ", "a", " ", "=", " ", "2">>

\* a valid line between two lines that fail to parse
TextBad == <<"b", " ", "c", "\n", "v", "a", "r", " ", "a", " ", "=", " ", "1", "\n", "1", " ", "+", " ", "2">>

\* a line that is one quote character
TextQuote == <<"\"">>

\* a declaration whose initializer is one quote character
TextVarQuote == <<"v", "a", "r", " ", "q", " ", "=", " ", "'">>

\* a struct declaration and its closing brace
TextStruct == <<"s", "t", "r", "u", "c", "t", " ", "P", "o", "i", "n", "t", " ", "{", "\n", "}">>

\* the struct declaration with one field on a line of its own
TextStructFields == <<"s", "t", "r", "u", "c", "t", " ", "P", "o", "i", "n", "t", " ", "{", "\n", "x", ":", " ", "N", "u", "m", "b", "e", "r", "\n", "}">>

\* a declaration whose initializer names Point
TextRef == <<"v", "a", "r", " ", "p", " ", "=", " ", "P", "o", "i", "n", "t">>

\* a function whose body declares t
TextLocal == <<"f", "n", " ", "f", "(", ")", " ", "{", "\n", "v", "a", "r", " ", "t", " ", "=", " ", "1", "\n", "}">>

\* the function add with a body line and its closing brace
TextAdd == <<"f", "n", " ", "a", "d", "d", "(", "a", ":", " ", "N", "u", "m", "b", "e", "r", ",", " ", "b", ":", " ", "N", "u", "m", "b", "e", "r", ")", ":", " ", "N", "u", "m", "b", "e", "r", " ", "{", "\n", "r", "e", "t", "u", "r", "n", " ", "a", " ", "+", " ", "b", "\n", "}">>

\* the function add with an empty body
TextAddEmpty == <<"f", "n", " ", "a", "d", "d", "(", "a", ":", " ", "N", "u", "m", "b", "e", "r", ",", " ", "b", ":", " ", "N", "u", "m", "b", "e", "r", ")", ":", " ", "N", "u", "m", "b", "e", "r", " ", "{", "\n", "}">>

\* a var declaration with spaces around =
TextVarX == <<"v", "a", "r", " ", "x", " ", "=", " ", "1">>

\* the same declaration with let
TextLetX == <<"l", "e", "t", " ", "x", " ", "=", " ", "1">>

\* the same declaration with const
TextConstX == <<"c", "o", "n", "s", "t", " ", "x", " ", "=", " ", "1">>

\* the var declaration without spaces around =
TextVarTight == <<"v", "a", "r", " ", "x", "=", "1">>

\* an untyped declaration followed by the line x.
TextAnyDot == <<"v", "a", "r", " ", "x", " ", "=", " ", "1", "\n", "x", ".">>

\* two lines of block punctuation, the first with text after the brace, then a line that fails
TextPunct == <<"}", " ", "b", " ", "c", "\n", "{", "\n", "b", " ", "c">>

\* a member access on the first line and a declaration on the second
TextDotEarlier == <<"x", ".", "a", "\n", "v", "a", "r", " ", "y", " ", "=", " ", "1">>

\* a call whose argument is no expression of the grammar
TextCallSum == <<"f", "(", "1", " ", "+", " ", "2", ")">>

\* a call whose argument is a call with two arguments
TextCallNested == <<"f", "(", "g", "(", "1", ",", "2", ")", ")">>

\* a variable with a type annotation and a function of the same name
TextShadow == <<"v", "a", "r", " ", "a", " ", ":", " ", "N", "u", "m", "b", "e", "r", " ", "=", " ", "1", "\n", "f", "n", " ", "a", "(", "p", ")", " ", "{">>

Texts == {TextHi, TextHiDot, TextSpaced, TextDecls, TextBad, TextQuote, TextVarQuote, TextStruct, TextStructFields, TextRef, TextLocal, TextAdd, TextAddEmpty, TextVarX, TextLetX, TextConstX, TextVarTight, TextAnyDot, TextPunct, TextDotEarlier, TextCallSum, TextCallNested, TextShadow}

\* parse over the texts of the model, computed once
ParseTable == [t \in Texts |-> parse(t)]

parser_parse(content) == ParseTable[content]

----------------------------------------------------------------------------
(* The document store (analyzer.rs)                                        *)

Locks == {"documents", "variables", "current_file", "workspace_root",
          "type_checker.workspace_root"}

Threads == {"t1", "t2"}

\* a thread that runs no operation
Idle == [op |-> "idle"]

\* BurnAnalyzer::new with BurnTypeChecker::new
Init ==
    /\ documents = EmptyMap
    /\ variables = EmptyMap
    /\ current_file = None
    /\ lock_holder = [l \in Locks |-> "free"]
    /\ open_log = EmptyMap
    /\ last = [op |-> "new"]
    /\ recent = <<>>
    /\ pc = [t \in Threads |-> Idle]

\* self.documents.lock().unwrap() when the mutex is not free: the caller
\* panics on a poisoned mutex and waits for ever on one that is never
\* released
LockOutcome == IF lock_holder["documents"] = "poisoned" THEN "panic" ELSE "blocked"

\* a variant of AstOf that keeps a tree of the lines that parsed
AstOfPartial(r) == Some(IF r.tag = "Ok" THEN r.nodes ELSE <<>>)

\* the match on parser::parse in open_document: the AST is kept only when
\* the parse returned Ok
AstOf(r) == IF r.tag = "Ok" THEN Some(r.nodes) ELSE None

\* the errors open_document logs
LoggedErrors(r) == IF r.tag = "Err" THEN r.errors ELSE <<>>

\* open_document
Open(uri, content) ==
    LET r == parser_parse(content)
        ast == AstOf(r)
        logged == LoggedErrors(r)
    IN IF r.tag = "Panic"
       THEN /\ last' = [op |-> "open", uri |-> uri, content |-> content,
                        outcome |-> "panic"]
            /\ recent' = <<>>
            /\ UNCHANGED <<documents, variables, current_file, lock_holder, open_log, pc>>
       ELSE IF lock_holder["documents"] # "free"
       THEN /\ open_log' = Insert(open_log, uri, logged)
            /\ last' = [op |-> "open", uri |-> uri, content |-> content,
                        outcome |-> LockOutcome]
            /\ recent' = <<>>
            /\ UNCHANGED <<documents, variables, current_file, lock_holder, pc>>
       ELSE /\ documents' = Insert(documents, uri,
                                   [uri |-> uri, content |-> content, ast |-> ast])
            /\ open_log' = Insert(open_log, uri, logged)
            /\ last' = [op |-> "open", uri |-> uri, content |-> content,
                        outcome |-> "returned"]
            /\ recent' = <<>>
            /\ UNCHANGED <<variables, current_file, lock_holder, pc>>

\* close_document
Close(uri) ==
    IF lock_holder["documents"] # "free"
    THEN /\ last' = [op |-> "close", uri |-> uri, outcome |-> LockOutcome]
         /\ recent' = <<>>
         /\ UNCHANGED <<documents, variables, current_file, lock_holder, open_log, pc>>
    ELSE /\ documents' = Remove(documents, uri)
         /\ last' = [op |-> "close", uri |-> uri, outcome |-> "returned"]
         /\ recent' = <<>>
         /\ UNCHANGED <<variables, current_file, lock_holder, open_log, pc>>

\* a variant of ParseAnalysisError that reports the line 0-based
ParseAnalysisErrorZeroBased(err) ==
    [message |-> err.message, error_type |-> "ParseError", line |-> err.line - 1,
     column |-> err.column, length |-> 1]

\* the conversion of a ParseError in analyze_document
ParseAnalysisError(err) ==
    [message |-> err.message, error_type |-> "ParseError", line |-> err.line,
     column |-> err.column, length |-> 1]

\* the conversion of a TypeErrorInfo in analyze_document
TypeAnalysisError(err) ==
    [message |-> err.message, error_type |-> "TypeError", line |-> err.line,
     column |-> err.column, length |-> err.length]

\* the value analyze_document returns for a stored document
AnalyzeErrors(document) ==
    LET type_errors == TypeErrors(document.ast.value)
        r == parser_parse(document.content)
    IN IF document.ast.tag = "Some"
       THEN [i \in 1..Len(type_errors) |-> TypeAnalysisError(type_errors[i])]
       ELSE IF r.tag = "Err"
       THEN [i \in 1..Len(r.errors) |-> ParseAnalysisError(r.errors[i])]
       ELSE <<>>

\* check_types stores variable_types only when its error list is empty
StoresEnvironment(document) ==
    document.ast.tag = "Some" /\ TypeErrors(document.ast.value) = <<>>

\* a variant of set_current_file that keeps a pointer already set
KeepCurrentFile(file_uri) ==
    IF current_file.tag = "Some" THEN current_file ELSE Some(file_uri)

\* set_current_file: the value written to current_file
set_current_file(file_uri) == Some(file_uri)

\* analyze_document
Analyze(uri) ==
    IF lock_holder["documents"] # "free"
    THEN /\ last' = [op |-> "analyze", uri |-> uri, outcome |-> LockOutcome]
         /\ recent' = <<>>
         /\ UNCHANGED <<documents, variables, current_file, lock_holder, open_log, pc>>
    ELSE IF uri \notin DOMAIN documents
    THEN /\ last' = [op |-> "analyze", uri |-> uri, outcome |-> "returned",
                     result |-> <<>>]
         /\ recent' = <<>>
         /\ UNCHANGED <<documents, variables, current_file, lock_holder, open_log, pc>>
    ELSE LET document == documents[uri]
         IN /\ current_file' = IF document.ast.tag = "Some" THEN set_current_file(uri)
                               ELSE current_file
            /\ variables' = IF StoresEnvironment(document)
                            THEN Insert(variables, uri,
                                        VariableTypes(document.ast.value, EmptyMap))
                            ELSE variables
            /\ last' = [op |-> "analyze", uri |-> uri, outcome |-> "returned",
                        result |-> AnalyzeErrors(document)]
            /\ recent' = IF document.ast.tag = "Some"
                         THEN (IF recent = <<>> THEN <<>> ELSE <<recent[Len(recent)]>>)
                              \o <<uri>>
                         ELSE <<>>
            /\ UNCHANGED <<documents, lock_holder, open_log, pc>>

\* analyze_all_documents: with the documents mutex held, the first
\* iteration calls analyze_document, which locks the same mutex again.
\* std::sync::Mutex leaves that unspecified: the call never returns, it
\* blocks for ever or panics (and the guard dropped by the unwinding
\* poisons the mutex).
AnalyzeAll ==
    IF lock_holder["documents"] # "free"
    THEN /\ last' = [op |-> "analyzeAll", outcome |-> LockOutcome]
         /\ recent' = <<>>
         /\ UNCHANGED <<documents, variables, current_file, lock_holder, open_log, pc>>
    ELSE IF DOMAIN documents = {}
    THEN /\ last' = [op |-> "analyzeAll", outcome |-> "returned", result |-> EmptyMap]
         /\ recent' = <<>>
         /\ UNCHANGED <<documents, variables, current_file, lock_holder, open_log, pc>>
    ELSE \E relock \in {"deadlocked", "poisoned"} :
            /\ lock_holder' = [lock_holder EXCEPT !["documents"] = relock]
            /\ last' = [op |-> "analyzeAll",
                        outcome |-> IF relock = "poisoned" THEN "panic" ELSE "blocked"]
            /\ recent' = <<>>
            /\ UNCHANGED <<documents, variables, current_file, open_log, pc>>

\* BurnLanguageServer::hover: get_document, then on_hover on its content.
\* `via` names the document whose environment the type lookups read.
Hover(uri, line, character) ==
    /\ last' =
         IF lock_holder["documents"] # "free"
         THEN [op |-> "hover", uri |-> uri, line |-> line, character |-> character,
               outcome |-> LockOutcome]
         ELSE [op |-> "hover", uri |-> uri, line |-> line, character |-> character,
               outcome |-> "returned",
               via |-> IF current_file.tag = "Some" /\ current_file.value \in DOMAIN variables
                       THEN current_file ELSE None,
               result |-> IF uri \in DOMAIN documents
                          THEN on_hover(current_file, variables,
                                        documents[uri].content, line, character)
                          ELSE Ok(None)]
    /\ UNCHANGED <<documents, variables, current_file, lock_holder, open_log, recent, pc>>

\* BurnLanguageServer::completion: get_document, then get_completions on
\* its content
Completion(uri, line, character) ==
    \E order \in Orders(IteratedNames(current_file, variables,
                                      lock_holder["variables"] = "free")) :
        /\ last' =
             IF lock_holder["documents"] # "free"
             THEN [op |-> "completion", uri |-> uri, line |-> line,
                   character |-> character, outcome |-> LockOutcome]
             ELSE [op |-> "completion", uri |-> uri, line |-> line,
                   character |-> character, outcome |-> "returned",
                   result |-> IF uri \in DOMAIN documents
                              THEN Some(get_completions(current_file, variables,
                                            lock_holder["variables"] = "free", order,
                                            documents[uri].content, line, character))
                              ELSE None]
        /\ UNCHANGED <<documents, variables, current_file, lock_holder, open_log, recent, pc>>

\* BurnTypeChecker::get_variable_type called on its own
TypeOf(name) ==
    /\ last' = [op |-> "typeOf", name |-> name, outcome |-> "returned",
                result |-> get_variable_type(name)]
    /\ UNCHANGED <<documents, variables, current_file, lock_holder, open_log, recent, pc>>

\* BurnTypeChecker::get_property_type called on its own
MemberType(object_type, property_name) ==
    /\ last' = [op |-> "memberType", object_type |-> object_type,
                property_name |-> property_name, outcome |-> "returned",
                result |-> get_property_type(object_type, property_name)]
    /\ UNCHANGED <<documents, variables, current_file, lock_holder, open_log, recent, pc>>

\* the guard `name == word` of the declaration arms of find_definition; the
\* parser builds no ClassDeclaration
DeclaresName(node, word) ==
    /\ node.kind \in {"FunctionDeclaration", "VariableDeclaration", "StructDeclaration"}
    /\ node.name = word

\* DefinitionLocation of a declaration node
DefinitionLocation(doc_uri, node) ==
    [uri |-> doc_uri, line |-> node.line, character |-> node.column]

\* the inner loop of find_definition: the first node of the AST that
\* declares the word
FirstDefinition(nodes, word) ==
    LET matching == {i \in 1..Len(nodes) : DeclaresName(nodes[i], word)}
    IN IF matching = {} THEN None
       ELSE Some(nodes[CHOOSE i \in matching : \A j \in matching : i <= j])

\* the documents whose AST is present and declares the word
DefiningDocuments(docs, word) ==
    {u \in DOMAIN docs :
        /\ docs[u].ast.tag = "Some"
        /\ FirstDefinition(docs[u].ast.value, word).tag = "Some"}

\* the outer loop of find_definition runs over a HashMap, whose iteration
\* order is unspecified: the first match of any defining document can be the
\* one returned
DefinitionsOf(docs, word) ==
    IF DefiningDocuments(docs, word) = {} THEN {None}
    ELSE {Some(DefinitionLocation(u, FirstDefinition(docs[u].ast.value, word).value)) :
            u \in DefiningDocuments(docs, word)}

\* the word under the offset, when there is one
WordAt(content, range) ==
    IF range.tag = "Some" THEN Some(Slice(content, range.value.start, range.value.end))
    ELSE None

\* the word find_definition looks up
DefinitionWord(content, offset) ==
    IF offset.tag = "Ok" THEN WordAt(content, find_word_at_offset(content, offset.value))
    ELSE None

\* find_definition: the set of values it can return
find_definition(docs, uri, line, character) ==
    IF uri \notin DOMAIN docs THEN {None}
    ELSE IF DefinitionWord(docs[uri].content,
                           position_to_offset(docs[uri].content, line, character)).tag = "None"
    THEN {None}
    ELSE DefinitionsOf(docs, DefinitionWord(docs[uri].content,
                           position_to_offset(docs[uri].content, line, character)).value)

\* a variant of DocumentSymbol that reports every declaration as a variable
DocumentSymbolAsVariable(node) ==
    [name |-> node.name, symbol_type |-> "Variable",
     line |-> node.line, character |-> node.column]

\* the DocumentSymbol of a declaration node
DocumentSymbol(node) ==
    [name |-> node.name,
     symbol_type |-> CASE node.kind = "FunctionDeclaration" -> "Function"
                       [] node.kind = "VariableDeclaration" -> "Variable"
                       [] node.kind = "StructDeclaration" -> "Struct",
     line |-> node.line, character |-> node.column]

\* the symbols of the nodes from index i on, in node order
RECURSIVE SymbolsFrom(_, _)
SymbolsFrom(nodes, i) ==
    IF i > Len(nodes) THEN <<>>
    ELSE (IF nodes[i].kind \in {"FunctionDeclaration", "VariableDeclaration",
                                "StructDeclaration"}
          THEN <<DocumentSymbol(nodes[i])>> ELSE <<>>) \o SymbolsFrom(nodes, i + 1)

\* a variant of get_document_symbols that answers for some stored document
\* when the uri is unknown
SymbolsOfSomeDocument(docs, uri) ==
    IF DOMAIN docs = {} THEN <<>>
    ELSE IF docs[IF uri \in DOMAIN docs THEN uri ELSE CHOOSE v \in DOMAIN docs : TRUE].ast.tag
            = "None"
    THEN <<>>
    ELSE SymbolsFrom(docs[IF uri \in DOMAIN docs THEN uri
                          ELSE CHOOSE v \in DOMAIN docs : TRUE].ast.value, 1)

\* get_document_symbols
get_document_symbols(docs, uri) ==
    IF uri \notin DOMAIN docs THEN <<>>
    ELSE IF docs[uri].ast.tag = "None" THEN <<>>
    ELSE SymbolsFrom(docs[uri].ast.value, 1)

\* BurnLanguageServer::goto_definition: find_definition under the documents
\* mutex
FindDefinition(uri, line, character) ==
    /\ IF lock_holder["documents"] # "free"
       THEN last' = [op |-> "definition", uri |-> uri, line |-> line,
                     character |-> character, outcome |-> LockOutcome]
       ELSE \E result \in find_definition(documents, uri, line, character) :
               last' = [op |-> "definition", uri |-> uri, line |-> line,
                        character |-> character, outcome |-> "returned",
                        result |-> result]
    /\ UNCHANGED <<documents, variables, current_file, lock_holder, open_log, recent, pc>>

\* BurnLanguageServer::document_symbol: get_document_symbols under the
\* documents mutex
DocumentSymbols(uri) ==
    /\ last' = IF lock_holder["documents"] # "free"
               THEN [op |-> "symbols", uri |-> uri, outcome |-> LockOutcome]
               ELSE [op |-> "symbols", uri |-> uri, outcome |-> "returned",
                     result |-> get_document_symbols(documents, uri)]
    /\ UNCHANGED <<documents, variables, current_file, lock_holder, open_log, recent, pc>>

----------------------------------------------------------------------------
(* Specifications                                                          *)

\* the document life cycle
LifecycleTexts ==
    {TextDecls, TextBad, TextSpaced, TextQuote, TextVarQuote, TextShadow}

Next ==
    \/ \E uri \in Uris, content \in LifecycleTexts : Open(uri, content)
    \/ \E uri \in Uris : Close(uri)
    \/ \E uri \in Uris : Analyze(uri)
    \/ AnalyzeAll

Spec == Init /\ [][Next]_vars

\* the queries over analysed documents
QueryTexts == {TextHi, TextHiDot, TextSpaced, TextAnyDot, TextDotEarlier}

QueryNames == {<<"x">>, Str_String, Str_Date, Str_Http, <<"y">>}

\* owner types: a built-in, a struct, and two with no members
OwnerTypes == {Str_String, Str_struct_sp \o <<"P">>, Str_any, Str_Number}

\* a member of String, and a name that is a member of nothing
MemberNames == {<<"l", "e", "n", "g", "t", "h">>, <<"x">>}

\* (line, character) pairs: on the x of line 0, on its keyword, on line 1
HoverPositions == {<<0, 4>>, <<0, 0>>, <<1, 0>>}

\* right after the "x." of line 1, and at the start of the text
CompletionPositions == {<<1, 2>>, <<0, 0>>}

QueryNext ==
    \/ \E uri \in Uris, content \in QueryTexts : Open(uri, content)
    \/ \E uri \in Uris : Close(uri)
    \/ \E uri \in Uris : Analyze(uri)
    \/ \E name \in QueryNames : TypeOf(name)
    \/ \E object_type \in OwnerTypes, property_name \in MemberNames :
          MemberType(object_type, property_name)
    \/ \E uri \in Uris, pos \in HoverPositions : Hover(uri, pos[1], pos[2])
    \/ \E uri \in Uris, pos \in CompletionPositions : Completion(uri, pos[1], pos[2])

QuerySpec == Init /\ [][QueryNext]_vars

\* go-to-definition and document symbols over two documents
NavTexts == {TextStruct, TextStructFields, TextRef, TextLocal, TextDotEarlier}

\* (line, character) pairs: on the Point of line 0, on line 1, at the start
NavPositions == {<<0, 8>>, <<1, 4>>, <<0, 0>>}

NavNext ==
    \/ \E uri \in Uris, content \in NavTexts : Open(uri, content)
    \/ \E uri \in Uris : Close(uri)
    \/ \E uri \in Uris : Analyze(uri)
    \/ \E uri \in Uris, pos \in NavPositions : FindDefinition(uri, pos[1], pos[2])
    \/ \E uri \in Uris : DocumentSymbols(uri)

NavSpec == Init /\ [][NavNext]_vars

\* the parser seen through open_document
ParseTexts ==
    {TextAdd, TextAddEmpty, TextVarX, TextLetX, TextConstX, TextVarTight,
     TextBad, TextStructFields, TextPunct, TextQuote, TextCallSum, TextCallNested}

ParseNext ==
    \/ \E uri \in Uris, content \in ParseTexts : Open(uri, content)
    \/ \E uri \in Uris : Close(uri)

ParseSpec == Init /\ [][ParseNext]_vars

----------------------------------------------------------------------------
(* The operations run by concurrent threads, one step per Mutex::lock      *)
(* (analyzer.rs, typechecker.rs).  A guard that lives to the end of its    *)
(* block is released in the step that ends the block.                      *)

\* the mutexes whose guard thread t holds
Held(t) == {l \in Locks : lock_holder[l] = t}

Acquire(holder, l, t) == [holder EXCEPT ![l] = t]

Release(holder, ls) == [l \in Locks |-> IF l \in ls THEN "free" ELSE holder[l]]

\* open_document: the parse, then the insert under the documents guard
OpenDocument(t, uri, content) ==
    /\ pc[t] = Idle
    /\ lock_holder["documents"] = "free"
    /\ parser_parse(content).tag # "Panic"
    /\ documents' = Insert(documents, uri,
                           [uri |-> uri, content |-> content,
                            ast |-> AstOf(parser_parse(content))])
    /\ UNCHANGED <<variables, current_file, lock_holder, open_log, last, recent, pc>>

\* close_document
CloseDocument(t, uri) ==
    /\ pc[t] = Idle
    /\ lock_holder["documents"] = "free"
    /\ documents' = Remove(documents, uri)
    /\ UNCHANGED <<variables, current_file, lock_holder, open_log, last, recent, pc>>

\* analyze_document, line 72: the documents guard lives to the end of the
\* function; a missing document or one without AST is answered under it
AnalyzeLockDocuments(t, uri) ==
    /\ pc[t] = Idle
    /\ lock_holder["documents"] = "free"
    /\ IF uri \in DOMAIN documents /\ documents[uri].ast.tag = "Some"
       THEN /\ lock_holder' = Acquire(lock_holder, "documents", t)
            /\ pc' = [pc EXCEPT ![t] = [op |-> "analyze", uri |-> uri,
                                        at |-> "set_current_file"]]
       ELSE UNCHANGED <<lock_holder, pc>>
    /\ UNCHANGED <<documents, variables, current_file, open_log, last, recent>>

\* set_current_file, line 40, called at analyzer.rs:85 and again at
\* typechecker.rs:45
SetCurrentFileLock(t) ==
    /\ pc[t].op = "analyze"
    /\ pc[t].at \in {"set_current_file", "check_types"}
    /\ lock_holder["current_file"] = "free"
    /\ lock_holder' = Acquire(lock_holder, "current_file", t)
    /\ pc' = [pc EXCEPT ![t].at =
                IF pc[t].at = "set_current_file" THEN "set_current_file.store"
                ELSE "check_types.store"]
    /\ UNCHANGED <<documents, variables, current_file, open_log, last, recent>>

\* a variant of SetCurrentFileStore whose guard outlives set_current_file
SetCurrentFileStoreKeepingGuard(t) ==
    /\ pc[t].op = "analyze"
    /\ pc[t].at \in {"set_current_file.store", "check_types.store"}
    /\ current_file' = set_current_file(pc[t].uri)
    /\ pc' = [pc EXCEPT ![t].at =
                IF pc[t].at = "set_current_file.store" THEN "check_types"
                ELSE "variables.lock"]
    /\ UNCHANGED <<documents, variables, lock_holder, open_log, last, recent>>

\* set_current_file, line 41, and the drop of its guard
SetCurrentFileStore(t) ==
    /\ pc[t].op = "analyze"
    /\ pc[t].at \in {"set_current_file.store", "check_types.store"}
    /\ current_file' = set_current_file(pc[t].uri)
    /\ lock_holder' = Release(lock_holder, {"current_file"})
    /\ pc' = [pc EXCEPT ![t].at =
                IF pc[t].at = "set_current_file.store" THEN "check_types"
                ELSE "variables.lock"]
    /\ UNCHANGED <<documents, variables, open_log, last, recent>>

\* check_types, line 114
CheckTypesLockVariables(t) ==
    /\ pc[t].op = "analyze"
    /\ pc[t].at = "variables.lock"
    /\ lock_holder["variables"] = "free"
    /\ lock_holder' = Acquire(lock_holder, "variables", t)
    /\ pc' = [pc EXCEPT ![t].at = "variables.insert"]
    /\ UNCHANGED <<documents, variables, current_file, open_log, last, recent>>

\* check_types, line 115, and the return of analyze_document
CheckTypesInsert(t) ==
    /\ pc[t].op = "analyze"
    /\ pc[t].at = "variables.insert"
    /\ variables' = Insert(variables, pc[t].uri,
                           VariableTypes(documents[pc[t].uri].ast.value, EmptyMap))
    /\ lock_holder' = Release(lock_holder, {"variables", "documents"})
    /\ pc' = [pc EXCEPT ![t] = Idle]
    /\ UNCHANGED <<documents, current_file, open_log, last, recent>>

\* analyze_all_documents, line 122: with no document the loop is empty
AnalyzeAllLock(t) ==
    /\ pc[t] = Idle
    /\ lock_holder["documents"] = "free"
    /\ IF DOMAIN documents = {}
       THEN UNCHANGED <<lock_holder, pc>>
       ELSE /\ lock_holder' = Acquire(lock_holder, "documents", t)
            /\ pc' = [pc EXCEPT ![t] = [op |-> "analyzeAll", at |-> "analyze_document"]]
    /\ UNCHANGED <<documents, variables, current_file, open_log, last, recent>>

\* analyze_all_documents, line 126: analyze_document locks the mutex its
\* caller holds; the thread waits for ever, or panics and poisons it
AnalyzeAllRelock(t) ==
    /\ pc[t].op = "analyzeAll"
    /\ pc[t].at = "analyze_document"
    /\ \E relock \in {"deadlocked", "poisoned"} :
          IF relock = "deadlocked"
          THEN /\ pc' = [pc EXCEPT ![t].at = "blocked"]
               /\ UNCHANGED lock_holder
          ELSE /\ lock_holder' = Acquire(lock_holder, "documents", "poisoned")
               /\ pc' = [pc EXCEPT ![t] = Idle]
    /\ UNCHANGED <<documents, variables, current_file, open_log, last, recent>>

\* BurnAnalyzer::set_workspace_root, line 36
SetWorkspaceRootLock(t) ==
    /\ pc[t] = Idle
    /\ lock_holder["workspace_root"] = "free"
    /\ lock_holder' = Acquire(lock_holder, "workspace_root", t)
    /\ pc' = [pc EXCEPT ![t] = [op |-> "setWorkspaceRoot",
                                at |-> "type_checker.set_workspace_root"]]
    /\ UNCHANGED <<documents, variables, current_file, open_log, last, recent>>

\* BurnTypeChecker::set_workspace_root, line 35, called at analyzer.rs:39
SetWorkspaceRootInner(t) ==
    /\ pc[t].op = "setWorkspaceRoot"
    /\ pc[t].at = "type_checker.set_workspace_root"
    /\ lock_holder["type_checker.workspace_root"] = "free"
    /\ lock_holder' = Acquire(lock_holder, "type_checker.workspace_root", t)
    /\ pc' = [pc EXCEPT ![t].at = "store"]
    /\ UNCHANGED <<documents, variables, current_file, open_log, last, recent>>

\* the two returns
SetWorkspaceRootReturn(t) ==
    /\ pc[t].op = "setWorkspaceRoot"
    /\ pc[t].at = "store"
    /\ lock_holder' = Release(lock_holder, {"workspace_root",
                                            "type_checker.workspace_root"})
    /\ pc' = [pc EXCEPT ![t] = Idle]
    /\ UNCHANGED <<documents, variables, current_file, open_log, last, recent>>

\* BurnLanguageServer::hover, line 175: get_document, whose guard is
\* dropped before on_hover looks a name up
HoverGetDocument(t, uri) ==
    /\ pc[t] = Idle
    /\ lock_holder["documents"] = "free"
    /\ uri \in DOMAIN documents
    /\ pc' = [pc EXCEPT ![t] = [op |-> "hover", at |-> "get_variable_type"]]
    /\ UNCHANGED <<documents, variables, current_file, lock_holder, open_log,
                   last, recent>>

\* get_variable_type, line 123, entered by typeOf or from on_hover: with no
\* current file the registry answers under this guard alone
GetVariableTypeLock(t) ==
    /\ pc[t] = Idle \/ (pc[t].op = "hover" /\ pc[t].at = "get_variable_type")
    /\ lock_holder["current_file"] = "free"
    /\ IF current_file.tag = "Some"
       THEN /\ lock_holder' = Acquire(lock_holder, "current_file", t)
            /\ pc' = [pc EXCEPT ![t] = [op |-> "typeOf", at |-> "variables.lock"]]
       ELSE /\ pc' = [pc EXCEPT ![t] = Idle]
            /\ UNCHANGED lock_holder
    /\ UNCHANGED <<documents, variables, current_file, open_log, last, recent>>

\* get_variable_type, line 126
GetVariableTypeLockVariables(t) ==
    /\ pc[t].op = "typeOf"
    /\ pc[t].at = "variables.lock"
    /\ lock_holder["variables"] = "free"
    /\ lock_holder' = Acquire(lock_holder, "variables", t)
    /\ pc' = [pc EXCEPT ![t].at = "variables.get"]
    /\ UNCHANGED <<documents, variables, current_file, open_log, last, recent>>

\* get_variable_type, lines 128-143: the return drops both guards
GetVariableTypeReturn(t) ==
    /\ pc[t].op = "typeOf"
    /\ pc[t].at = "variables.get"
    /\ lock_holder' = Release(lock_holder, {"variables", "current_file"})
    /\ pc' = [pc EXCEPT ![t] = Idle]
    /\ UNCHANGED <<documents, variables, current_file, open_log, last, recent>>

\* the record of a completion request that returned; `environment` holds
\* the names the TypeEnvironment of the current file has at that moment
CompletionReturned(t, locked, order) ==
    [op |-> "completion", thread |-> t, outcome |-> "returned",
     environment |-> IF current_file.tag = "Some" /\ current_file.value \in DOMAIN variables
                     THEN DOMAIN variables[current_file.value] ELSE {},
     result |-> get_completions(current_file, variables, locked, order, TextHi, 0, 0)]

\* get_completions, line 242, outside a member access (at the start of the
\* text); with no current file the three fixed lists are returned
CompletionLockCurrent(t) ==
    /\ pc[t] = Idle
    /\ lock_holder["current_file"] = "free"
    /\ IF current_file.tag = "Some"
       THEN /\ lock_holder' = Acquire(lock_holder, "current_file", t)
            /\ pc' = [pc EXCEPT ![t] = [op |-> "completion",
                                        at |-> "variables.try_lock"]]
            /\ UNCHANGED last
       ELSE /\ last' = CompletionReturned(t, FALSE, <<>>)
            /\ UNCHANGED <<lock_holder, pc>>
    /\ UNCHANGED <<documents, variables, current_file, open_log, recent>>

\* get_completions, line 243: try_lock takes the mutex or gives up, and
\* then the loop over the variables is skipped
CompletionTryLock(t) ==
    /\ pc[t].op = "completion"
    /\ pc[t].at = "variables.try_lock"
    /\ IF lock_holder["variables"] = "free"
       THEN /\ lock_holder' = Acquire(lock_holder, "variables", t)
            /\ pc' = [pc EXCEPT ![t].at = "variables.iterate"]
            /\ UNCHANGED last
       ELSE /\ lock_holder' = Release(lock_holder, {"current_file"})
            /\ pc' = [pc EXCEPT ![t] = Idle]
            /\ last' = CompletionReturned(t, FALSE, <<>>)
    /\ UNCHANGED <<documents, variables, current_file, open_log, recent>>

\* get_completions, lines 244-257
CompletionReturn(t) ==
    /\ pc[t].op = "completion"
    /\ pc[t].at = "variables.iterate"
    /\ lock_holder' = Release(lock_holder, {"variables", "current_file"})
    /\ pc' = [pc EXCEPT ![t] = Idle]
    /\ \E order \in Orders(IteratedNames(current_file, variables, TRUE)) :
          last' = CompletionReturned(t, TRUE, order)
    /\ UNCHANGED <<documents, variables, current_file, open_log, recent>>

\* the texts opened by the threads
ThreadTexts == {TextHi, TextBad}

\* find_definition, line 161: the documents guard lives to the end of the
\* function
FindDefinitionLock(t, uri) ==
    /\ pc[t] = Idle
    /\ lock_holder["documents"] = "free"
    /\ lock_holder' = Acquire(lock_holder, "documents", t)
    /\ pc' = [pc EXCEPT ![t] = [op |-> "findDefinition", uri |-> uri, at |-> "search"]]
    /\ UNCHANGED <<documents, variables, current_file, open_log, last, recent>>

\* find_definition, lines 163-232
FindDefinitionReturn(t) ==
    /\ pc[t].op = "findDefinition"
    /\ lock_holder' = Release(lock_holder, {"documents"})
    /\ pc' = [pc EXCEPT ![t] = Idle]
    /\ UNCHANGED <<documents, variables, current_file, open_log, last, recent>>

\* get_document_symbols, line 236
DocumentSymbolsLock(t, uri) ==
    /\ pc[t] = Idle
    /\ lock_holder["documents"] = "free"
    /\ lock_holder' = Acquire(lock_holder, "documents", t)
    /\ pc' = [pc EXCEPT ![t] = [op |-> "documentSymbols", uri |-> uri, at |-> "collect"]]
    /\ UNCHANGED <<documents, variables, current_file, open_log, last, recent>>

\* get_document_symbols, lines 239-289
DocumentSymbolsReturn(t) ==
    /\ pc[t].op = "documentSymbols"
    /\ lock_holder' = Release(lock_holder, {"documents"})
    /\ pc' = [pc EXCEPT ![t] = Idle]
    /\ UNCHANGED <<documents, variables, current_file, open_log, last, recent>>

\* get_property_type of a struct type, line 182, entered by memberType or
\* from get_property_hover after get_variable_type has answered
GetPropertyTypeLock(t) ==
    /\ pc[t] = Idle \/ (pc[t].op = "hoverProperty" /\ pc[t].at = "get_property_type")
    /\ lock_holder["current_file"] = "free"
    /\ lock_holder' = Acquire(lock_holder, "current_file", t)
    /\ pc' = [pc EXCEPT ![t] = [op |-> "memberType", at |-> "current_file.read"]]
    /\ UNCHANGED <<documents, variables, current_file, open_log, last, recent>>

\* get_property_type, lines 184-188
GetPropertyTypeReturn(t) ==
    /\ pc[t].op = "memberType"
    /\ lock_holder' = Release(lock_holder, {"current_file"})
    /\ pc' = [pc EXCEPT ![t] = Idle]
    /\ UNCHANGED <<documents, variables, current_file, open_log, last, recent>>

\* BurnLanguageServer::hover on the property of a member access:
\* get_document, whose guard is dropped before get_property_hover runs
HoverPropertyGetDocument(t, uri) ==
    /\ pc[t] = Idle
    /\ lock_holder["documents"] = "free"
    /\ uri \in DOMAIN documents
    /\ pc' = [pc EXCEPT ![t] = [op |-> "hoverProperty", at |-> "get_variable_type"]]
    /\ UNCHANGED <<documents, variables, current_file, lock_holder, open_log,
                   last, recent>>

\* get_property_hover, hover.rs line 132: get_variable_type, line 123; with
\* no current file the registry answers under this guard alone
HoverPropertyLockCurrent(t) ==
    /\ pc[t].op = "hoverProperty"
    /\ pc[t].at = "get_variable_type"
    /\ lock_holder["current_file"] = "free"
    /\ IF current_file.tag = "Some"
       THEN /\ lock_holder' = Acquire(lock_holder, "current_file", t)
            /\ pc' = [pc EXCEPT ![t].at = "variables.lock"]
       ELSE /\ pc' = [pc EXCEPT ![t].at = "get_property_type"]
            /\ UNCHANGED lock_holder
    /\ UNCHANGED <<documents, variables, current_file, open_log, last, recent>>

\* get_variable_type, line 126
HoverPropertyLockVariables(t) ==
    /\ pc[t].op = "hoverProperty"
    /\ pc[t].at = "variables.lock"
    /\ lock_holder["variables"] = "free"
    /\ lock_holder' = Acquire(lock_holder, "variables", t)
    /\ pc' = [pc EXCEPT ![t].at = "variables.get"]
    /\ UNCHANGED <<documents, variables, current_file, open_log, last, recent>>

\* get_variable_type, lines 128-143: the return drops both guards; the
\* hover ends here when the object has no type or a type without members
\* from the built-in table, and goes on to get_property_type otherwise
HoverPropertyVariableReturn(t) ==
    /\ pc[t].op = "hoverProperty"
    /\ pc[t].at = "variables.get"
    /\ lock_holder' = Release(lock_holder, {"variables", "current_file"})
    /\ \E goes_on \in BOOLEAN :
          pc' = [pc EXCEPT ![t] = IF goes_on
                                  THEN [op |-> "hoverProperty", at |-> "get_property_type"]
                                  ELSE Idle]
    /\ UNCHANGED <<documents, variables, current_file, open_log, last, recent>>

\* the steps that continue an operation thread t has started
Continue(t) ==
    \/ SetCurrentFileLock(t)
    \/ SetCurrentFileStore(t)
    \/ CheckTypesLockVariables(t)
    \/ CheckTypesInsert(t)
    \/ SetWorkspaceRootInner(t)
    \/ SetWorkspaceRootReturn(t)
    \/ (pc[t] # Idle /\ GetVariableTypeLock(t))
    \/ GetVariableTypeLockVariables(t)
    \/ GetVariableTypeReturn(t)
    \/ CompletionTryLock(t)
    \/ CompletionReturn(t)
    \/ FindDefinitionReturn(t)
    \/ DocumentSymbolsReturn(t)
    \/ (pc[t] # Idle /\ GetPropertyTypeLock(t))
    \/ GetPropertyTypeReturn(t)
    \/ HoverPropertyLockCurrent(t)
    \/ HoverPropertyLockVariables(t)
    \/ HoverPropertyVariableReturn(t)

\* the steps that start an operation other than analyze_all_documents
Start(t) ==
    \/ \E content \in ThreadTexts : OpenDocument(t, UriA, content)
    \/ CloseDocument(t, UriA)
    \/ AnalyzeLockDocuments(t, UriA)
    \/ SetWorkspaceRootLock(t)
    \/ HoverGetDocument(t, UriA)
    \/ (pc[t] = Idle /\ GetVariableTypeLock(t))
    \/ CompletionLockCurrent(t)
    \/ FindDefinitionLock(t, UriA)
    \/ DocumentSymbolsLock(t, UriA)
    \/ (pc[t] = Idle /\ GetPropertyTypeLock(t))
    \/ HoverPropertyGetDocument(t, UriA)

ConcurrentNext == \E t \in Threads : Start(t) \/ Continue(t)

\* a thread that has started an operation is scheduled again, and a
\* Mutex::lock that finds the mutex free again and again is granted it
ConcurrentSpec ==
    Init /\ [][ConcurrentNext]_vars /\ \A t \in Threads : SF_vars(Continue(t))

\* the operations interleaved lock by lock
ThreadNext ==
    \E t \in Threads :
        \/ \E content \in ThreadTexts : OpenDocument(t, UriA, content)
        \/ CloseDocument(t, UriA)
        \/ AnalyzeLockDocuments(t, UriA)
        \/ SetCurrentFileLock(t)
        \/ SetCurrentFileStore(t)
        \/ CheckTypesLockVariables(t)
        \/ CheckTypesInsert(t)
        \/ AnalyzeAllLock(t)
        \/ AnalyzeAllRelock(t)
        \/ SetWorkspaceRootLock(t)
        \/ SetWorkspaceRootInner(t)
        \/ SetWorkspaceRootReturn(t)
        \/ HoverGetDocument(t, UriA)
        \/ GetVariableTypeLock(t)
        \/ GetVariableTypeLockVariables(t)
        \/ GetVariableTypeReturn(t)
        \/ CompletionLockCurrent(t)
        \/ CompletionTryLock(t)
        \/ CompletionReturn(t)

ThreadSpec == Init /\ [][ThreadNext]_vars

----------------------------------------------------------------------------
(* Properties of the document life cycle                                   *)

\* C1: in every reachable state each stored document has an AST if and
\* only if parsing its stored text yields no parse error, the AST being the
\* nodes of that parse; a document whose text has a line that fails to
\* parse has ast = None.
C1_AstIffNoParseErrors ==
    \A uri \in DOMAIN documents :
        LET r == parser_parse(documents[uri].content)
        IN /\ r.tag \in {"Ok", "Err"}
           /\ r.tag = "Ok" => documents[uri].ast = Some(r.nodes)
           /\ r.tag = "Err" => r.errors # <<>> /\ documents[uri].ast = None

\* C1: a document with an AST and one without are stored at once, after an
\* analysis
C1_Witness ==
    /\ last.op = "analyze"
    /\ \E a, b \in DOMAIN documents :
          /\ documents[a].ast.tag = "Some"
          /\ documents[b].ast = None
          /\ parser_parse(documents[b].content).tag = "Err"

\* C2: in every reachable state a type environment is stored for a uri
\* only if that uri is open and its document has an AST, so that none
\* remains after a close or after a re-open with text that fails to parse.
C2_EnvironmentOnlyForOpenAst ==
    \A uri \in DOMAIN variables :
        uri \in DOMAIN documents /\ documents[uri].ast.tag = "Some"

\* C3: when analyze(A) and analyze(B) of two different documents with an
\* AST are followed by hover(A), the lookups of the hover read the
\* environment of B, the document analysed last, and the hover is the one
\* on_hover computes from B's environment.
C3_HoverReadsLastAnalysed ==
    (/\ last.op = "hover"
     /\ last.outcome = "returned"
     /\ Len(recent) = 2
     /\ recent[1] # recent[2]
     /\ last.uri = recent[1])
    => /\ {recent[1], recent[2]} \subseteq DOMAIN documents
       /\ documents[recent[1]].ast.tag = "Some"
       /\ documents[recent[2]].ast.tag = "Some"
       /\ last.via = Some(recent[2])
       /\ last.result = on_hover(Some(recent[2]), variables,
                                 documents[last.uri].content,
                                 last.line, last.character)

\* C3: after analyze(A); analyze(B); hover(A) the hover shows the type B
\* declares for the name, which differs from the one A's own environment
\* gives
C3_Witness ==
    /\ last.op = "hover"
    /\ last.outcome = "returned"
    /\ Len(recent) = 2
    /\ recent[1] # recent[2]
    /\ last.uri = recent[1]
    /\ last.via = Some(recent[2])
    /\ last.result.tag = "Ok"
    /\ last.result.value.tag = "Some"
    /\ last.result # on_hover(Some(recent[1]), variables,
                              documents[last.uri].content,
                              last.line, last.character)

\* C4: for every set of open documents, analyzeAll runs to completion and
\* returns a map with one entry per open uri, holding what analyze returns
\* for that document.
C4_AnalyzeAllCompletes ==
    last.op = "analyzeAll"
    => /\ last.outcome = "returned"
       /\ DOMAIN last.result = DOMAIN documents
       /\ \A uri \in DOMAIN documents :
             last.result[uri] = AnalyzeErrors(documents[uri])

\* C5: at no point of any operation does a thread hold two of the mutexes
\* at the same time.
C5_AtMostOneLockHeld ==
    \A t \in Threads : Cardinality(Held(t)) <= 1

\* C6: for every input text, open followed by analyze completes and returns
\* an error list without aborting: on an analyzer whose documents mutex is
\* free, open returns with the document stored and analyze returns.
C6_OpenAnalyzeNeverAborts ==
    lock_holder["documents"] = "free"
    => /\ last.op = "open"
          => /\ last.outcome = "returned"
             /\ last.uri \in DOMAIN documents
             /\ documents[last.uri].content = last.content
       /\ last.op = "analyze" => last.outcome = "returned"

\* C7: a document whose text has a line that fails to parse is stored with
\* ast = None, and every analyze of it returns the parse errors logged when
\* it was opened: one AnalysisError of kind ParseError per ParseError, in
\* the same order, with the same message, line and column.
C7_AnalyzeRegeneratesOpenErrors ==
    /\ \A uri \in DOMAIN documents :
          parser_parse(documents[uri].content).tag = "Err"
          => documents[uri].ast = None
    /\ (/\ last.op = "analyze"
        /\ last.outcome = "returned"
        /\ last.uri \in DOMAIN documents
        /\ parser_parse(documents[last.uri].content).tag = "Err")
       => /\ last.uri \in DOMAIN open_log
          /\ Len(open_log[last.uri]) > 0
          /\ Len(last.result) = Len(open_log[last.uri])
          /\ \A i \in 1..Len(last.result) :
                /\ last.result[i].error_type = "ParseError"
                /\ last.result[i].message = open_log[last.uri][i].message
                /\ last.result[i].line = open_log[last.uri][i].line
                /\ last.result[i].column = open_log[last.uri][i].column

\* C7: analyze returned two parse errors, of lines 1 and 3, for a document
\* whose second line is a valid declaration
C7_Witness ==
    /\ last.op = "analyze"
    /\ last.outcome = "returned"
    /\ last.uri \in DOMAIN documents
    /\ documents[last.uri].content = TextBad
    /\ documents[last.uri].ast = None
    /\ Len(last.result) = 2
    /\ last.result[1].line = 1
    /\ last.result[2].line = 3

\* the top-level variable, function and struct declarations of an AST
DeclarationIndices(nodes) ==
    {i \in 1..Len(nodes) :
        nodes[i].kind \in {"VariableDeclaration", "FunctionDeclaration",
                           "StructDeclaration"}}

\* the state after analyze returned for a stored document all of whose lines
\* parsed
AnalysedWithAst ==
    /\ last.op = "analyze"
    /\ last.outcome = "returned"
    /\ last.uri \in DOMAIN documents
    /\ parser_parse(documents[last.uri].content).tag = "Ok"

\* C8, as stated: for a document in which every line parses, open followed
\* by analyze returns an empty error list and leaves an environment with one
\* entry per top-level declaration, also when two declarations share a name.
C8_OneEntryPerDeclaration ==
    AnalysedWithAst
    => /\ last.result = <<>>
       /\ last.uri \in DOMAIN variables
       /\ Cardinality(DOMAIN variables[last.uri])
            = Cardinality(DeclarationIndices(documents[last.uri].ast.value))

\* C8, amended: the environment holds one entry per distinct name declared
\* at top level by a variable, function or struct declaration.
C8_OneEntryPerDeclaredName ==
    AnalysedWithAst
    => /\ last.result = <<>>
       /\ last.uri \in DOMAIN variables
       /\ DOMAIN variables[last.uri]
            = {documents[last.uri].ast.value[i].name :
                  i \in DeclarationIndices(documents[last.uri].ast.value)}

\* C8: analyze returned for the document of four declarations, two of them
\* of the name a, and its environment has three entries
C8_Witness ==
    /\ AnalysedWithAst
    /\ documents[last.uri].content = TextDecls
    /\ Cardinality(DeclarationIndices(documents[last.uri].ast.value)) = 4
    /\ Cardinality(DOMAIN variables[last.uri]) = 3

\* C9: typeOf(name) returns the entry of name in the current document's
\* environment when name is declared there and otherwise the entry of the
\* built-in registry, also when a current document with a stored
\* environment exists that does not declare the name.
C9_TypeOfFallsBackToRegistry ==
    last.op = "typeOf"
    => last.result =
         IF /\ current_file.tag = "Some"
            /\ current_file.value \in DOMAIN variables
            /\ last.name \in DOMAIN variables[current_file.value]
         THEN Some(variables[current_file.value][last.name])
         ELSE BuiltinType(last.name)

\* C10: after opening and analysing the document var x: String = "hi" the
\* type table maps x to "String", a hover over x contains String, and
\* completion right after a trailing x. returns the String member list,
\* which includes toUpperCase.
C10_StringDeclarationEndToEnd ==
    LET analysed(text) ==
            /\ last.outcome = "returned"
            /\ recent # <<>>
            /\ recent[Len(recent)] = last.uri
            /\ last.uri \in DOMAIN documents
            /\ documents[last.uri].content = text
    IN /\ (last.op = "analyze" /\ analysed(TextHi))
          => /\ <<"x">> \in DOMAIN variables[last.uri]
             /\ variables[last.uri][<<"x">>] = Str_String
       /\ (last.op = "hover" /\ analysed(TextHi)
           /\ last.line = 0 /\ last.character = 4)
          => /\ last.result.tag = "Ok"
             /\ last.result.value.tag = "Some"
             /\ contains_str(last.result.value.value.value, Str_String)
       /\ (last.op = "completion" /\ analysed(TextHiDot)
           /\ last.line = 1 /\ last.character = 2)
          => /\ last.result = Some(add_string_completions)
             /\ \E i \in 1..Len(add_string_completions) :
                   add_string_completions[i].label
                     = <<"t", "o", "U", "p", "p", "e", "r", "C", "a", "s", "e">>

----------------------------------------------------------------------------
(* Properties of go-to-definition, of the parser and of completion         *)

Str_Point == <<"P", "o", "i", "n", "t">>

\* the document's first line opens the declaration of struct Point
DeclaresStructPoint(content) ==
    starts_with(content, Str_struct_sp \o Str_Point \o <<" ", "{">>)

\* find_definition returned for the Point of TextRef, stored under u, while
\* d holds a document declaring struct Point
DefinitionOfPointAsked(u, d) ==
    /\ last.op = "definition"
    /\ last.outcome = "returned"
    /\ last.uri = u
    /\ <<last.line, last.character>> = <<0, 8>>
    /\ u \in DOMAIN documents
    /\ d \in DOMAIN documents
    /\ documents[u].content = TextRef
    /\ DeclaresStructPoint(documents[d].content)

\* C11: with two open documents, one declaring struct Point and one
\* referencing Point, findDefinition on the reference returns a location in
\* the declaring document, in whichever order the two were opened.
C11_DefinitionInDeclaringDocument ==
    \A u \in Uris, d \in Uris :
        DefinitionOfPointAsked(u, d)
            => /\ last.result.tag = "Some"
               /\ last.result.value.uri = d

Str_add == <<"a", "d", "d">>

\* a FunctionDeclaration named add with two parameters typed Number, return
\* type Number and an empty body
IsAddDeclaration(node) ==
    /\ node.kind = "FunctionDeclaration"
    /\ node.name = Str_add
    /\ Len(node.params) = 2
    /\ \A i \in 1..2 : node.params[i].typ = Some(Basic(Str_Number))
    /\ node.return_type = Some(Basic(Str_Number))
    /\ node.body = <<>>

\* open_document was called with a text whose first line is the header of
\* add
OpenedAdd ==
    /\ last.op = "open"
    /\ lines(last.content)[1] = lines(TextAddEmpty)[1]

\* C12: when the first line is `fn add(a: Number, b: Number): Number {`, the
\* parse result contains the FunctionDeclaration of add with two Number
\* parameters, return type Number and an empty body, whatever the later
\* lines are.
C12_AddDeclarationWhateverFollows ==
    OpenedAdd
        => /\ parser_parse(last.content).tag = "Ok"
           /\ \E i \in 1..Len(parser_parse(last.content).nodes) :
                 IsAddDeclaration(parser_parse(last.content).nodes[i])

\* the keyword of a line of the grammar KEYWORD NAME [":" TYPE] ["=" EXPR]
GrammarKeyword(line) == Slice(line, 0, WordEnd(line, 0))

\* the NAME of such a line: the identifier after the keyword
GrammarName(line) ==
    Slice(line, SkipWs(line, WordEnd(line, 0)),
          WordEnd(line, SkipWs(line, WordEnd(line, 0))))

\* open_document was called with one line KEYWORD NAME = EXPR
OpenedDeclarationLine ==
    /\ last.op = "open"
    /\ Len(lines(last.content)) = 1
    /\ GrammarKeyword(last.content) \in {Str_var, Str_let, Str_const}
    /\ GrammarName(last.content) # <<>>
    /\ contains_char(last.content, "=")

\* C13: a line KEYWORD NAME = EXPR, with or without spaces around `=`,
\* parses to exactly one node, a VariableDeclaration named NAME that is
\* mutable exactly when the keyword is not const.
C13_DeclarationLineOneNode ==
    OpenedDeclarationLine
        => /\ parser_parse(last.content).tag = "Ok"
           /\ Len(parser_parse(last.content).nodes) = 1
           /\ parser_parse(last.content).nodes[1].kind = "VariableDeclaration"
           /\ parser_parse(last.content).nodes[1].name = GrammarName(last.content)
           /\ parser_parse(last.content).nodes[1].is_mutable
                 = (GrammarKeyword(last.content) # Str_const)

\* the owner types that have a member table
MemberTables == {Str_String, Str_Array, Str_Date, Str_Http, Str_Time}

\* C14: in every reachable state, also before any analysis, memberType
\* returns "any" for every member of an owner type that begins with
\* "struct ", and nothing for an owner type that is neither a built-in with
\* a member table nor a "struct " string.
C14_StructMembersAreAny ==
    last.op = "memberType"
        => /\ starts_with(last.object_type, Str_struct_sp)
                 => last.result = Some(Str_any)
           /\ (/\ ~starts_with(last.object_type, Str_struct_sp)
               /\ last.object_type \notin MemberTables)
                 => last.result = None

\* the value a query returns when it has nothing to report
EmptyResult(op) == IF op = "definition" THEN None ELSE <<>>

\* C15: analyze, findDefinition and documentSymbols on a document id that is
\* not open return an empty result (no error, no location, no symbol)
\* without raising, and leave the document map, every TypeEnvironment and
\* the current-document pointer as they were.
C15_UnknownIdDegrades ==
    [][(/\ last'.op \in {"analyze", "definition", "symbols"}
        /\ last'.uri \notin DOMAIN documents)
          => /\ last'.outcome = "returned"
             /\ last'.result = EmptyResult(last'.op)
             /\ UNCHANGED <<documents, variables, current_file>>]_vars

\* analyze of a closed document whose environment is still stored, while
\* another document is the current one
C15_Witness ==
    /\ last.op = "analyze"
    /\ last.outcome = "returned"
    /\ last.result = <<>>
    /\ last.uri = UriB
    /\ UriB \notin DOMAIN documents
    /\ UriB \in DOMAIN variables
    /\ current_file = Some(UriA)
    /\ UriA \in DOMAIN documents

\* the entry open_document stores for its arguments
StoredFor(uri, content) ==
    [uri |-> uri, content |-> content, ast |-> AstOf(parser_parse(content))]

\* C16: open(id, text) stores exactly the entry made from its arguments
\* under id, replacing whatever was there, and close(id) removes the entry
\* of id; both leave the entry of every other id as it was.  By induction
\* over a sequence of open and close calls, the stored ids are those whose
\* last call was open, each with the text of its most recent open.
C16_OpenCloseFrame ==
    [][/\ (last'.op = "open" /\ last'.outcome = "returned")
            => /\ DOMAIN documents' = DOMAIN documents \cup {last'.uri}
               /\ documents'[last'.uri] = StoredFor(last'.uri, last'.content)
               /\ \A u \in DOMAIN documents \ {last'.uri} : documents'[u] = documents[u]
       /\ (last'.op = "close" /\ last'.outcome = "returned")
            => /\ DOMAIN documents' = DOMAIN documents \ {last'.uri}
               /\ \A u \in DOMAIN documents' : documents'[u] = documents[u]]_vars

\* a document was opened over a stored one with another text, while the
\* other id keeps its own
C16_Witness ==
    /\ last.op = "open"
    /\ last.outcome = "returned"
    /\ last.uri = UriA
    /\ last.content = TextConstX
    /\ open_log[UriA] = <<>>
    /\ documents[UriA] = StoredFor(UriA, TextConstX)
    /\ UriB \in DOMAIN documents
    /\ documents[UriB] = StoredFor(UriB, TextAdd)

\* the labels of a list of completion items
Labels(items) == {items[i].label : i \in 1..Len(items)}

\* the labels of the three fixed lists
FixedLabels ==
    Labels(add_keyword_completions) \cup Labels(add_type_completions)
        \cup Labels(add_builtin_function_completions)

\* C17: outside a member access, completion returns the keywords, the
\* built-in type names, the built-in functions and every name that the
\* TypeEnvironment of the current document holds at that moment, in every
\* interleaving with requests that read or rebuild the TypeEnvironment map.
C17_CompletionListsEnvironment ==
    (last.op = "completion" /\ last.outcome = "returned")
        => Labels(last.result) = FixedLabels \cup last.environment

\* the text before the cursor
TextBefore(content, line, character) ==
    Slice(content, 0, position_to_offset(content, line, character).value)

\* the character immediately before the cursor is a dot
DotBeforeCursor(content, line, character) ==
    /\ position_to_offset(content, line, character).tag = "Ok"
    /\ TextBefore(content, line, character) # <<>>
    /\ ends_with(TextBefore(content, line, character), <<".">>)

\* the identifier that ends at the dot before the cursor
IdentifierBeforeDot(before) ==
    Slice(before, LastNonWord(Slice(before, 0, Len(before) - 1)) + 1, Len(before) - 1)

\* the member list of a resolved type: the fixed list of a type that has
\* one, the default list in every other case
MemberListOf(type) ==
    IF type.tag = "Some" /\ type.value \in MemberTables
    THEN MemberCompletions(type.value)
    ELSE default_property_completions

\* C18: when the character before the cursor is a dot, completion returns
\* the fixed member list of the type of the identifier before the dot when
\* that type is String, Array, Date, Http or Time, and the default list
\* (length, name, toString, valueOf) in every other case, whether the
\* identifier has no type or a type such as "any".
C18_DotCompletionFallsBackToDefault ==
    [][(/\ last'.op = "completion"
        /\ last'.outcome = "returned"
        /\ last'.uri \in DOMAIN documents
        /\ DotBeforeCursor(documents[last'.uri].content, last'.line, last'.character))
          => last'.result =
                Some(MemberListOf(get_variable_type(IdentifierBeforeDot(
                        TextBefore(documents[last'.uri].content, last'.line,
                                   last'.character)))))]_vars

\* block punctuation: a line that starts with a closing brace, parenthesis
\* or bracket, or that holds only whitespace and braces
BlockPunctuation(trimmed) ==
    \/ CharAt(trimmed, 0) \in {"}", ")", "]"}
    \/ \A i \in 1..Len(trimmed) : is_whitespace(trimmed[i]) \/ trimmed[i] \in {"{", "}"}

\* a statement line that matches no production: it is neither blank, a
\* comment nor block punctuation, it is no declaration, and it fails as an
\* expression
UnparseableStatement(trimmed, line_num) ==
    /\ trimmed # <<>>
    /\ ~starts_with(trimmed, <<"/", "/">>)
    /\ ~BlockPunctuation(trimmed)
    /\ parse_variable_declaration(trimmed, line_num) = None
    /\ parse_function_declaration(trimmed, line_num) = None
    /\ parse_struct_declaration(trimmed, line_num) = None
    /\ parse_import_declaration(trimmed, line_num) = None
    /\ parse_expression(trimmed, line_num, 0).tag = "Err"

\* the 1-based numbers of the unparseable statement lines of a text
UnparseableLines(content) ==
    {n \in 1..Len(lines(content)) : UnparseableStatement(trim(lines(content)[n]), n)}

\* the errors are those of the lines in U, one each, in source order
ErrorsMatchLines(errors, U) ==
    /\ Len(errors) = Cardinality(U)
    /\ \A i \in 1..Len(errors) : errors[i].line \in U
    /\ \A i, j \in 1..Len(errors) : i < j => errors[i].line < errors[j].line

\* C19: parse does not stop at the first failure.  For every text on which
\* it returns, it returns one ParseError per unparseable statement line,
\* each carrying the number of its line, in source order, and the result is
\* Err as soon as one line is unparseable, whatever the other lines are.
C19_OneErrorPerUnparseableLine ==
    (last.op = "open" /\ last.outcome = "returned")
        => IF UnparseableLines(last.content) = {}
           THEN parser_parse(last.content).tag = "Ok"
           ELSE /\ parser_parse(last.content).tag = "Err"
                /\ ErrorsMatchLines(parser_parse(last.content).errors,
                                    UnparseableLines(last.content))

\* a text whose first and third lines fail while the second parses
C19_Witness ==
    /\ last.op = "open"
    /\ last.outcome = "returned"
    /\ UnparseableLines(last.content) = {1, 3}
    /\ parse_variable_declaration(lines(last.content)[2], 2).tag = "Some"
    /\ Len(open_log[last.uri]) = 2
    /\ documents[last.uri].ast = None

\* the line is the header of a function or of a struct
IsHeaderLine(line) ==
    \/ parse_function_declaration(trim(line), 1).tag = "Some"
    \/ parse_struct_declaration(trim(line), 1).tag = "Some"

\* the line starts with a closing brace
IsClosingLine(line) == starts_with(trim(line), <<"}">>)

\* line n (1-based) of the lines ls lies inside a body: after a header whose
\* body is still open and before a closing brace
InsideBody(ls, n) ==
    /\ \E h \in 1..(n - 1) :
          /\ IsHeaderLine(ls[h])
          /\ \A k \in (h + 1)..n : ~IsClosingLine(ls[k])
    /\ \E c \in (n + 1)..Len(ls) : IsClosingLine(ls[c])

\* C20: findDefinition never returns a declaration that stands on a line
\* inside a function or struct body; only declarations that are top-level
\* in the source are returned.
C20_NoDefinitionInsideBody ==
    [][(/\ last'.op = "definition"
        /\ last'.outcome = "returned"
        /\ last'.result.tag = "Some")
          => ~InsideBody(lines(documents[last'.result.value.uri].content),
                         last'.result.value.line)]_vars

----------------------------------------------------------------------------
(* Properties of hover, of the parser's fallbacks and of the tables        *)

\* the word that starts at offset start is the property part of an
\* `identifier.property` pattern
PropertyPart(content, start) ==
    /\ start >= 2
    /\ At(content, start - 1) = "."
    /\ IsWordChar(At(content, start - 2))

\* the span of a word as a range of positions
SpanOf(content, range) ==
    Some([start |-> offset_to_position(content, range.start).value,
          end |-> offset_to_position(content, range.end).value])

\* the hover of a word: its declared type, else its keyword text, else its
\* built-in text, with the span; nothing when none of the three has it
WordHover(word, span) ==
    IF get_variable_type(word).tag = "Some"
    THEN Ok(Some([value |-> HoverMarkup(word, get_variable_type(word).value),
                  range |-> span]))
    ELSE IF get_keyword_info(word).tag = "Some"
    THEN Ok(Some([value |-> HoverMarkup(word, get_keyword_info(word).value),
                  range |-> span]))
    ELSE IF get_builtin_info(word).tag = "Some"
    THEN Ok(Some([value |-> get_builtin_info(word).value, range |-> span]))
    ELSE Ok(None)

\* the hover expected for the word at the given range of the content
HoverOfRange(content, range) ==
    WordHover(Slice(content, range.start, range.end), SpanOf(content, range))

\* the cursor of the hover request is on a word
HoverOnWord(content, line, character) ==
    /\ position_to_offset(content, line, character).tag = "Ok"
    /\ find_word_at_offset(content,
                           position_to_offset(content, line, character).value).tag = "Some"

\* the range of that word
HoverWordRange(content, line, character) ==
    find_word_at_offset(content, position_to_offset(content, line, character).value).value

\* C21: for a cursor on a word that is not the property part of an
\* `identifier.property` pattern, hover returns the first hit of declared
\* type, keyword glossary and built-in glossary with the exact span of the
\* word, and nothing only when none has it, also when an `identifier.`
\* occurs earlier in the text.
C21_HoverResolvesWord ==
    [][(/\ last'.op = "hover"
        /\ last'.outcome = "returned"
        /\ last'.uri \in DOMAIN documents
        /\ HoverOnWord(documents[last'.uri].content, last'.line, last'.character)
        /\ ~PropertyPart(documents[last'.uri].content,
                         HoverWordRange(documents[last'.uri].content, last'.line,
                                        last'.character).start))
          => last'.result =
                HoverOfRange(documents[last'.uri].content,
                             HoverWordRange(documents[last'.uri].content, last'.line,
                                            last'.character))]_vars

\* the line matches no declaration production and is neither blank nor a
\* comment
NonMatchingLine(trimmed, line_num) ==
    /\ trimmed # <<>>
    /\ ~starts_with(trimmed, <<"/", "/">>)
    /\ parse_variable_declaration(trimmed, line_num) = None
    /\ parse_function_declaration(trimmed, line_num) = None
    /\ parse_struct_declaration(trimmed, line_num) = None
    /\ parse_import_declaration(trimmed, line_num) = None

\* a lone closing brace, parenthesis or bracket, or only whitespace and
\* braces
LonePunctuation(trimmed) ==
    \/ trimmed \in {<<"}">>, <<")">>, <<"]">>}
    \/ \A i \in 1..Len(trimmed) : is_whitespace(trimmed[i]) \/ trimmed[i] \in {"{", "}"}

\* the line numbers of the errors of a parse result
ErrorLines(r) ==
    IF r.tag = "Err" THEN {r.errors[i].line : i \in 1..Len(r.errors)} ELSE {}

\* C22: a line that matches no declaration is ignored only when it is a lone
\* closing brace, parenthesis or bracket or holds only whitespace and
\* braces; any other such line that fails as an expression yields a parse
\* error, also when it starts with a closing brace, parenthesis or bracket.
C22_OnlyLonePunctuationIgnored ==
    (last.op = "open" /\ last.outcome = "returned")
        => \A n \in 1..Len(lines(last.content)) :
              NonMatchingLine(trim(lines(last.content)[n]), n)
                 => ((n \in ErrorLines(parser_parse(last.content)))
                        <=> (/\ ~LonePunctuation(trim(lines(last.content)[n]))
                             /\ parse_expression(trim(lines(last.content)[n]), n, 0).tag
                                   = "Err"))

\* the text between the first "(" of a line and its matching ")"
CallArguments(line) ==
    Slice(line, find_char(line, "(") + 1,
          find_matching_paren(line, find_char(line, "(")))

\* the line is a call: an identifier, "(" and the matching ")"
IsCallLine(line) ==
    /\ find_char(line, "(") > 0
    /\ is_valid_identifier(Slice(line, 0, find_char(line, "(")))
    /\ find_matching_paren(line, find_char(line, "(")) >= 0

\* the pieces of the argument text, split on commas, that match none of the
\* expression productions
FailingPieces(line) ==
    {i \in 1..Len(split(CallArguments(line), ",")) :
        /\ trim(split(CallArguments(line), ",")[i]) # <<>>
        /\ parse_expression(split(CallArguments(line), ",")[i], 1, 0).tag = "Err"}

\* C23: when a piece of a call's argument text, split on commas, matches no
\* expression production (the pieces of `f(g(1,2))`, the argument of
\* `f(1 + 2)`), parsing the line yields a parse error that carries its line
\* and a column inside the call, not a Call node that lacks the argument.
C23_FailingArgumentIsAnError ==
    (/\ last.op = "open"
     /\ last.outcome = "returned"
     /\ Len(lines(last.content)) = 1
     /\ IsCallLine(last.content)
     /\ FailingPieces(last.content) # {})
        => /\ parser_parse(last.content).tag = "Err"
           /\ \E i \in 1..Len(parser_parse(last.content).errors) :
                 /\ parser_parse(last.content).errors[i].line = 1
                 /\ parser_parse(last.content).errors[i].column
                       > find_char(last.content, "(")

\* the index of the k-th declaration among the nodes
NthDeclaration(nodes, k) ==
    CHOOSE i \in DeclarationIndices(nodes) :
        Cardinality({j \in DeclarationIndices(nodes) : j <= i}) = k

\* the symbol kind of a declaration node
SymbolKind(node) ==
    CASE node.kind = "FunctionDeclaration" -> "Function"
      [] node.kind = "VariableDeclaration" -> "Variable"
      [] node.kind = "StructDeclaration" -> "Struct"
      [] node.kind = "ClassDeclaration" -> "Class"

\* the symbols are those of the declarations among the nodes, one each, in
\* source order
SymbolsOfDeclarations(symbols, nodes) ==
    /\ Len(symbols) = Cardinality(DeclarationIndices(nodes))
    /\ \A k \in 1..Len(symbols) :
          /\ symbols[k].name = nodes[NthDeclaration(nodes, k)].name
          /\ symbols[k].symbol_type = SymbolKind(nodes[NthDeclaration(nodes, k)])
          /\ symbols[k].symbol_type \notin {"Method", "Property"}
          /\ symbols[k].line = nodes[NthDeclaration(nodes, k)].line
          /\ symbols[k].character = nodes[NthDeclaration(nodes, k)].column

\* C24: documentSymbols(id) returns one symbol per top-level function,
\* variable, struct or class declaration of the document, in source order,
\* with the declaration's name, kind and position, never a Method or
\* Property symbol, and the empty list when the document has no AST.
C24_SymbolsOfTopLevelDeclarations ==
    [][(/\ last'.op = "symbols"
        /\ last'.outcome = "returned"
        /\ last'.uri \in DOMAIN documents)
          => IF documents[last'.uri].ast.tag = "None" THEN last'.result = <<>>
             ELSE SymbolsOfDeclarations(last'.result, documents[last'.uri].ast.value)]_vars

\* the symbols of a function and of the variable declared after it, while
\* the other document has no AST
C24_Witness ==
    /\ last.op = "symbols"
    /\ last.outcome = "returned"
    /\ last.uri = UriA
    /\ UriA \in DOMAIN documents
    /\ documents[UriA].content = TextLocal
    /\ Len(last.result) = 2
    /\ last.result[1].symbol_type = "Function"
    /\ last.result[2].symbol_type = "Variable"
    /\ UriB \in DOMAIN documents
    /\ documents[UriB].ast = None

\* the rendering of an optional type annotation, with the text that stands
\* for a missing one
RenderedOr(typ, missing) ==
    IF typ.tag = "Some" THEN TypeToString(typ.value) ELSE missing

\* fn(p1, ..., pn)->R of a function declaration
RenderedFunction(node) ==
    <<"f", "n", "(">>
        \o join([i \in 1..Len(node.params) |-> RenderedOr(node.params[i].typ, Str_any)],
                <<",", " ">>)
        \o <<")", "-", ">">> \o RenderedOr(node.return_type, Str_void)

\* the type string of a declaration
RenderedDeclaration(node) ==
    CASE node.kind = "VariableDeclaration" -> RenderedOr(node.data_type, Str_any)
      [] node.kind = "FunctionDeclaration" -> RenderedFunction(node)
      [] node.kind = "StructDeclaration" -> Str_struct_sp \o node.name

\* the declaration at index i is the last one of its name
LastOfItsName(nodes, i) ==
    \A j \in DeclarationIndices(nodes) : nodes[j].name = nodes[i].name => j <= i

\* C25, as stated: after analyze of a document with an AST, the environment
\* maps each top-level variable, function and struct to the rendering of
\* its own declaration.
C25_EnvironmentRendersEachDeclaration ==
    AnalysedWithAst
        => \A i \in DeclarationIndices(documents[last.uri].ast.value) :
              variables[last.uri][documents[last.uri].ast.value[i].name]
                 = RenderedDeclaration(documents[last.uri].ast.value[i])

\* C25, amended: the environment maps each declared name to the rendering
\* of the last declaration of that name (the annotation or "any" for a
\* variable, fn(p1, ..., pn)->R with "any" and void for a function,
\* "struct Name" for a struct) and holds no other name.
C25_EnvironmentRendersLastDeclaration ==
    AnalysedWithAst
        => /\ DOMAIN variables[last.uri]
                 = {documents[last.uri].ast.value[i].name :
                       i \in DeclarationIndices(documents[last.uri].ast.value)}
           /\ \A i \in DeclarationIndices(documents[last.uri].ast.value) :
                 LastOfItsName(documents[last.uri].ast.value, i)
                    => variables[last.uri][documents[last.uri].ast.value[i].name]
                          = RenderedDeclaration(documents[last.uri].ast.value[i])

\* the environment of the text with a typed function, a struct and two
\* variables
C25_Witness ==
    /\ AnalysedWithAst
    /\ documents[last.uri].content = TextDecls
    /\ variables[last.uri][<<"f">>]
          = <<"f", "n", "(">> \o Str_Number \o <<")", "-", ">">> \o Str_Number
    /\ variables[last.uri][<<"P">>] = Str_struct_sp \o <<"P">>
    /\ variables[last.uri][<<"a">>] = Str_any

\* C26: in every reachable state the current-document pointer is either
\* unset or names a document that is open and has an AST.
C26_CurrentFileIsOpenWithAst ==
    current_file.tag = "Some"
        => /\ current_file.value \in DOMAIN documents
           /\ documents[current_file.value].ast.tag = "Some"

\* the position of a mutex in the order document map, current-document
\* pointer, TypeEnvironment map (and analyzer root, type checker root)
LockRank(l) ==
    CASE l = "documents" -> 1
      [] l = "current_file" -> 2
      [] l = "variables" -> 3
      [] l = "workspace_root" -> 1
      [] l = "type_checker.workspace_root" -> 2

\* a step in which a thread takes a mutex takes one that comes after every
\* mutex the thread holds
AcquiresInOrder ==
    \A t \in Threads : \A l \in Locks :
        (lock_holder[l] # t /\ lock_holder'[l] = t)
            => \A h \in Held(t) : LockRank(h) < LockRank(l)

C28_CompletionAgreesWithMemberType ==
    [][(/\ last'.op = "completion"
        /\ last'.outcome = "returned"
        /\ last'.uri \in DOMAIN documents
        /\ DotBeforeCursor(documents[last'.uri].content, last'.line, last'.character)
        /\ get_variable_type(IdentifierBeforeDot(
              TextBefore(documents[last'.uri].content, last'.line,
                         last'.character))) \in {Some(T) : T \in MemberTables})
          => \A i \in 1..Len(last'.result.value) :
                get_property_type(
                    get_variable_type(IdentifierBeforeDot(
                        TextBefore(documents[last'.uri].content, last'.line,
                                   last'.character))).value,
                    last'.result.value[i].label)
                  = last'.result.value[i].detail]_vars

\* line number line0 (0-based) of the text holds a declaration of the word
DeclaredOnLine(content, line0, word) ==
    /\ line0 < Len(lines(content))
    /\ ParseLine(At(lines(content), line0), line0 + 1).tag = "Node"
    /\ DeclaresName(ParseLine(At(lines(content), line0), line0 + 1).node, word)

\* the result of a definition request is the location of a declaration of
\* the word in a document with an AST
ResolvesTo(result, word) ==
    /\ result.tag = "Some"
    /\ result.value.uri \in DOMAIN documents
    /\ documents[result.value.uri].ast.tag = "Some"
    /\ \E i \in 1..Len(documents[result.value.uri].ast.value) :
          /\ DeclaresName(documents[result.value.uri].ast.value[i], word)
          /\ result.value
                = DefinitionLocation(result.value.uri,
                                     documents[result.value.uri].ast.value[i])

\* C29: the location findDefinition returns for a word, read as a 0-based
\* line and character like the position of the request, lies on the source
\* line that declares the word, and findDefinition at that location
\* resolves again to a declaration of the word.
C29_DefinitionLocationIsZeroBased ==
    [][(/\ last'.op = "definition"
        /\ last'.outcome = "returned"
        /\ last'.result.tag = "Some")
          => /\ DeclaredOnLine(documents[last'.result.value.uri].content,
                               last'.result.value.line,
                               DefinitionWord(documents[last'.uri].content,
                                   position_to_offset(documents[last'.uri].content,
                                       last'.line, last'.character)).value)
             /\ \A again \in find_definition(documents, last'.result.value.uri,
                                             last'.result.value.line,
                                             last'.result.value.character) :
                   ResolvesTo(again,
                              DefinitionWord(documents[last'.uri].content,
                                  position_to_offset(documents[last'.uri].content,
                                      last'.line, last'.character)).value)]_vars

\* the TypeEnvironment stored for a uri, if any
EnvironmentOf(vs, uri) == IF uri \in DOMAIN vs THEN Some(vs[uri]) ELSE None

\* C30: analyze(id) leaves the document map and the TypeEnvironment of
\* every document other than id unchanged; when id is open without an AST
\* it also leaves the current-document pointer and the TypeEnvironment of
\* id unchanged.
C30_AnalyzeFrame ==
    [][last'.op = "analyze"
          => /\ documents' = documents
             /\ \A uri \in Uris \ {last'.uri} :
                   EnvironmentOf(variables', uri) = EnvironmentOf(variables, uri)
             /\ (/\ last'.uri \in DOMAIN documents
                 /\ documents[last'.uri].ast.tag = "None")
                   => /\ current_file' = current_file
                      /\ EnvironmentOf(variables', last'.uri)
                            = EnvironmentOf(variables, last'.uri)]_vars

\* analyze of a document without AST has returned its parse errors while
\* the pointer names the other document, which has a TypeEnvironment, and
\* the analysed document still has the TypeEnvironment of its earlier text
C30_Witness ==
    /\ last.op = "analyze"
    /\ last.outcome = "returned"
    /\ last.uri \in DOMAIN documents
    /\ documents[last.uri].ast.tag = "None"
    /\ last.result # <<>>
    /\ current_file.tag = "Some"
    /\ current_file.value # last.uri
    /\ current_file.value \in DOMAIN variables
    /\ last.uri \in DOMAIN variables

====
